---------------------------- MODULE Spec2Model ----------------------------
(***************************************************************************)
(* Analytics core of pjrigali/fantasy_baseball.                            *)
(*                                                                         *)
(*   SpecOpt  the "aggressive" window optimizer of analyze_league_rosters  *)
(*   SpecZ    calculate_z_scores of analyze_keepers (Category Normalizer)  *)
(*   SpecDV   the three copies of calculate_daily_value                    *)
(*   SpecRoll the rolling means, the future window and their pairing       *)
(*   SpecRec  the roster / free-agent comparison of one checkpoint         *)
(*   SpecRate the derived rate stats of analyze_keepers and their guard    *)
(*   SpecRank the cohorts and the top five per team of analyze_keepers     *)
(*   SpecTeam roster patience, churn and team success, and their merge     *)
(*   SpecDash the snapshot CSV of process_dashboard_data, run after run    *)
(*   SpecCk   the free-agent pool of one checkpoint, players by identity   *)
(*   SpecMap  build_matchup_map of update_daily_stats_matchup              *)
(*                                                                         *)
(* Numbers.  pandas works on IEEE doubles; the model works on the exact    *)
(* reals they approximate.  A number is either NaN or a finite sum of      *)
(* terms (n/d)*sqrt(rad) with rad squarefree, n # 0, d > 0, gcd(n,d) = 1,  *)
(* at most one term per rad.  Square roots of distinct squarefree integers *)
(* are linearly independent over the rationals, so two numbers are equal   *)
(* as reals iff they are equal as sets of terms.  Floating-point rounding  *)
(* is not modelled.                                                        *)
(***************************************************************************)
EXTENDS Integers, Sequences, FiniteSets, TLC

VARIABLES
    \* Window Optimizer, analyze_league_rosters.py lines 59-103
    opc,            \* position in the script: sweep, select, done
    nDates,         \* number of rows (dates) of pivot_val
    nPlayers,       \* number of columns (players) of pivot_val
    w_idx,          \* index into windows of the loop that is running
    correlations,   \* dict window -> correlation, filled by the sweep
    max_corr,
    threshold,
    best_window,
    best_corr,
    \* calculate_z_scores, analyze_keepers.py lines 11-43
    zpc,                    \* loop, total, done
    df,                     \* the cohort: one row per player, category -> raw value
    categories,             \* list of category names
    ascending_categories,   \* names of the lower-is-better categories
    cat_idx,                \* index of the category the loop is at
    z_score_df,             \* z column name -> column of StandardScores
    z_cols,                 \* list of z column names, in append order
    Total_Z,                \* one total per row, once computed
    \* calculate_daily_value, three copies
    dpc,            \* columns, whip, er, done
    variant,        \* which script's copy runs
    day,            \* one date's group: the rows' roles and the table's columns
    col_idx,        \* index into batter_stats + pitcher_positive
    Daily_Value,    \* one value per row
    raised,         \* TRUE once the function has raised KeyError
    \* Rolling Window Engine: analyze_league_rosters.py 56-82 and
    \* generate_roster_recommendations.py 56-66
    rpc,            \* pivot, roll, stack, future, align, done
    window,         \* the window length W of rolling(window=W)
    player_daily,   \* long table: one record per (date, player) with a value
    pivot_val,      \* the date x player matrix: its dates and its columns
    past_w,         \* pivot_val.rolling(window).mean(), column by column
    rolling_long,   \* rolling_val.stack(): records (date, player, value)
    future_7,       \* rolling(7).mean().shift(-7), column by column
    aligned,        \* concat([past, future], axis=1).dropna(): the pairs
    \* Roster/Free-Agent Comparator: one pass of the checkpoint loop,
    \* generate_roster_recommendations.py 82-141
    cpc,            \* check, compare, done
    current_roster, \* the target team's rows: each the player's my_stat values
    fa_stats,       \* unrostered players of day_stats: rolling value -> how many
    taken_stats,    \* rolling values of players rostered by other teams
    top_fas,        \* the ranked candidates' rolling values
    row_idx,        \* index of the roster row the loop is at
    recommendations,\* appended rows
    \* Season Ranker, derived rate stats: analyze_keepers.py 102-115
    qpc,            \* batting, pitching, guard, done
    player_stats,   \* one player's row: column -> value
    \* Season Ranker, cohorts and top 5 per team: analyze_keepers.py 117-180,
    \* run twice on the same table
    kpc,            \* rank, teams, final, rerun, done
    season,         \* player_stats after the guard: one row per playerId
    tie_order,      \* what the build's quicksort does with equal keys
    run,            \* 1 or 2
    all_ranked,     \* pd.concat([batters_z, pitchers_z])
    team_pos,       \* index into teams of the loop
    results,        \* appended output rows
    results_df,     \* the table written to projected_keepers_2026.csv
    keep_raised,    \* TRUE once main has raised KeyError
    first_run,      \* what run 1 produced
    \* Roster patience, churn and Team Success Assessment:
    \* analyze_league_rosters.py 15-21 and 106-165
    tpc,            \* load, patience, churn, values, days, success, merge, done
    roster_df,      \* the roster intervals, one record per row
    daily_table,    \* player_daily as the team loop reads it
    max_date,       \* stats_df['date'].max()
    season_start,   \* roster_df['start_date'].min()
    team_patience,  \* describe() of days_held: team -> count of dropped rows
    team_churn,     \* team -> Total_Adds
    team_values,    \* the running per-team totals
    d_idx,          \* the date the loop over date_range is at
    success_df,     \* teams in the order of sort_values('Total_Value')
    merged_metrics, \* the rows left after the two merges
    \* Dashboard snapshot collector: process_dashboard_data.py 90-114,
    \* 158-170 and main 591-639, run after run on one CSV file
    mpc,            \* ready, dry, missing, today, loop
    now,            \* the date datetime.now() returns
    csv_rows,       \* dashboard_snapshots.csv: one row per player per date
    dry_run,        \* args.dry_run of the run in progress
    existing_dates, \* get_existing_dates() at the start of the run
    missing,        \* get_missing_dates(existing_dates, lookback_days=7)
    today_str,      \* line 615
    date_idx,       \* index into missing of the loop of line 623
    \* Free-agent pool of one checkpoint, players by identity:
    \* generate_roster_recommendations.py 19-21 and 82-141
    apc,            \* load, roster, stats, pool, rank, compare, done
    ck_roster,      \* roster_df of the recommender
    ck_max_date,    \* stats_df['date'].max()
    check_date,     \* the Monday the loop is at
    day_stats,      \* rolling_long on check_date: player -> Rolling_Value
    ck_tie,         \* what the build's sort does with equal values
    ck_current,     \* current_roster: the target team's active rows
    all_rostered,   \* ids rostered by anyone on check_date
    ck_top_fas,     \* top_fas: the candidates, best first
    ck_row,         \* index into current_roster of the compare loop
    ck_recs,        \* appended recommendation rows
    \* build_matchup_map, update_daily_stats_matchup.py 26-59
    bpc,                    \* start, matchup, days, done
    total_scoring_periods,
    reg_season_matchups,
    playoff_matchups,
    days_per_matchup,
    remainder,
    mp_map,                 \* scoring period -> matchup period
    sp,                     \* next scoring period to map
    matchup,                \* the outer loop's variable
    days_done               \* iterations of the inner loop so far

optVars == <<opc, nDates, nPlayers, w_idx, correlations, max_corr, threshold,
             best_window, best_corr>>
zVars == <<zpc, df, categories, ascending_categories, cat_idx, z_score_df,
           z_cols, Total_Z>>
dvVars == <<dpc, variant, day, col_idx, Daily_Value, raised>>
rollVars == <<rpc, window, player_daily, pivot_val, past_w, rolling_long,
              future_7, aligned>>
recVars == <<cpc, current_roster, fa_stats, taken_stats, top_fas, row_idx,
             recommendations>>
rateVars == <<qpc, player_stats>>
rankVars == <<kpc, season, tie_order, run, all_ranked, team_pos, results,
              results_df, keep_raised, first_run>>
teamVars == <<tpc, roster_df, daily_table, max_date, season_start,
              team_patience, team_churn, team_values, d_idx, success_df,
              merged_metrics>>
dashVars == <<mpc, now, csv_rows, dry_run, existing_dates, missing, today_str,
              date_idx>>
ckVars == <<apc, ck_roster, ck_max_date, check_date, day_stats, ck_tie,
            ck_current, all_rostered, ck_top_fas, ck_row, ck_recs>>
mapVars == <<bpc, total_scoring_periods, reg_season_matchups, playoff_matchups,
             days_per_matchup, remainder, mp_map, sp, matchup, days_done>>
vars == <<optVars, zVars, dvVars, rollVars, recVars, rateVars, rankVars,
    teamVars, dashVars, ckVars, mapVars>>

\* What each component leaves alone.
notOptVars == <<zVars, dvVars, rollVars, recVars, rateVars, rankVars,
    teamVars, dashVars, ckVars, mapVars>>
notZVars == <<optVars, dvVars, rollVars, recVars, rateVars, rankVars,
    teamVars, dashVars, ckVars, mapVars>>
notDVVars == <<optVars, zVars, rollVars, recVars, rateVars, rankVars,
    teamVars, dashVars, ckVars, mapVars>>
notRollVars == <<optVars, zVars, dvVars, recVars, rateVars, rankVars,
    teamVars, dashVars, ckVars, mapVars>>
notRecVars == <<optVars, zVars, dvVars, rollVars, rateVars, rankVars,
    teamVars, dashVars, ckVars, mapVars>>
notRateVars == <<optVars, zVars, dvVars, rollVars, recVars, rankVars,
    teamVars, dashVars, ckVars, mapVars>>
notRankVars == <<optVars, zVars, dvVars, rollVars, recVars, rateVars,
    teamVars, dashVars, ckVars, mapVars>>
notTeamVars == <<optVars, zVars, dvVars, rollVars, recVars, rateVars,
    rankVars, dashVars, ckVars, mapVars>>
notDashVars == <<optVars, zVars, dvVars, rollVars, recVars, rateVars,
    rankVars, teamVars, ckVars, mapVars>>
notCkVars == <<optVars, zVars, dvVars, rollVars, recVars, rateVars,
    rankVars, teamVars, dashVars, mapVars>>
notMapVars == <<optVars, zVars, dvVars, rollVars, recVars, rateVars,
    rankVars, teamVars, dashVars, ckVars>>

\* NaN is the one number that is not a sum of terms: its single "term" has
\* radicand 0, which no real value has.
NaN == {[rad |-> 0, n |-> 0, d |-> 0]}

Abs(x) == IF x < 0 THEN -x ELSE x

RECURSIVE Gcd(_, _)
Gcd(a, b) == IF b = 0 THEN Abs(a) ELSE Gcd(b, a % b)

\* s such that m = s*s*r with r squarefree (m >= 1), searching factors from f.
RECURSIVE SqPartFrom(_, _)
SqPartFrom(m, f) ==
    IF f * f > m THEN 1
    ELSE IF m % (f * f) = 0 THEN f * SqPartFrom(m \div (f * f), f)
    ELSE SqPartFrom(m, f + 1)

\* The number (n/d)*sqrt(radicand), d # 0, radicand >= 0, in normal form.
MkTerm(n, d, radicand) ==
    IF n = 0 \/ radicand = 0 THEN {}
    ELSE LET s  == SqPartFrom(radicand, 2)
             nn == (IF d < 0 THEN -n ELSE n) * s
             dd == Abs(d)
             g  == Gcd(Abs(nn), dd)
         IN  {[rad |-> radicand \div (s * s), n |-> nn \div g, d |-> dd \div g]}

Zero == {}
IntNum(k) == MkTerm(k, 1, 1)

Rads(x) == {t.rad : t \in x}
TermAt(x, r) == CHOOSE t \in x : t.rad = r

\* x + y on doubles: NaN is absorbing.
NumAdd(x, y) ==
    IF x = NaN \/ y = NaN THEN NaN
    ELSE UNION { IF r \in Rads(x) /\ r \in Rads(y)
                 THEN LET a == TermAt(x, r)
                          b == TermAt(y, r)
                      IN  MkTerm(a.n * b.d + b.n * a.d, a.d * b.d, r)
                 ELSE IF r \in Rads(x) THEN {TermAt(x, r)} ELSE {TermAt(y, r)}
               : r \in Rads(x) \cup Rads(y) }

NumNeg(x) == IF x = NaN THEN NaN ELSE {[t EXCEPT !.n = -t.n] : t \in x}

NumSub(x, y) == NumAdd(x, NumNeg(y))

\* x / y for a divisor with a single term (a mean count, a standard
\* deviation, the literal 1).  0/0 is NaN, as on doubles; a nonzero value is
\* never divided by zero because a zero deviation has all numerators zero.
NumDiv(x, y) ==
    IF x = NaN \/ y = NaN \/ y = Zero THEN NaN
    ELSE LET b == CHOOSE t \in y : TRUE
         IN  UNION { MkTerm(a.n * b.d, a.d * b.n * b.rad, a.rad * b.rad) : a \in x }

\* Sign tests for numbers with at most one term.
IsPos(x) == x # NaN /\ Cardinality(x) = 1 /\ \A t \in x : t.n > 0
NumLess(x, y) == IsPos(NumSub(y, x))

\* x*x for a number with at most one term.
NumSq(x) ==
    IF x = NaN THEN NaN
    ELSE UNION { MkTerm(t.n * t.n * t.rad, t.d * t.d, 1) : t \in x }

\* Series.fillna(0) on one cell.
FillNa0(x) == IF x = NaN THEN Zero ELSE x

RECURSIVE NumSumSeq(_)
NumSumSeq(s) == IF s = <<>> THEN Zero ELSE NumAdd(Head(s), NumSumSeq(Tail(s)))

RECURSIVE IntSumSeq(_)
IntSumSeq(s) == IF s = <<>> THEN 0 ELSE Head(s) + IntSumSeq(Tail(s))

\* The integer held by a cell that holds a whole number.
IntOf(x) == IF x = Zero THEN 0 ELSE (CHOOSE t \in x : TRUE).n

\* The cells of a column that are not NaN, in row order (skipna=True), as
\* integers.  A column is a sequence of cells, one per row.
Valid(col) ==
    LET keep == SelectSeq(col, LAMBDA v : v # NaN)
    IN  [i \in 1..Len(keep) |-> IntOf(keep[i])]

\* Series.mean(): NaN for a column with no valid cell.
ColMean(col) ==
    LET xs == Valid(col)
    IN  IF Len(xs) = 0 THEN NaN
        ELSE NumDiv(IntNum(IntSumSeq(xs)), IntNum(Len(xs)))

\* n*sum(x^2) - (sum x)^2 = n * (sum of squared deviations from the mean).
SpreadQ(xs) ==
    Len(xs) * IntSumSeq([i \in 1..Len(xs) |-> xs[i] * xs[i]])
      - IntSumSeq(xs) * IntSumSeq(xs)

\* Faulty variant: population standard deviation (ddof = 0).
ColStdPopulation(col) ==
    LET xs == Valid(col)
    IN  IF Len(xs) = 0 THEN NaN ELSE MkTerm(1, Len(xs), SpreadQ(xs))

\* Series.std(): pandas' default ddof = 1, the sample standard deviation
\* sqrt(sum((x - mean)^2) / (n - 1)); NaN when fewer than 2 valid cells.
ColStd(col) ==
    LET xs == Valid(col)
        n  == Len(xs)
    IN  IF n < 2 THEN NaN
        ELSE MkTerm(1, n * (n - 1), SpreadQ(xs) * n * (n - 1))


\* x * (n/d) for a rational literal such as 0.90 = 9/10.
NumScale(x, n, d) ==
    IF x = NaN THEN NaN
    ELSE UNION { MkTerm(t.n * n, t.d * d, t.rad) : t \in x }

\* x >= y on doubles: False whenever either side is NaN.
NumGeq(x, y) == x # NaN /\ y # NaN /\ (x = y \/ NumLess(y, x))

(***************************************************************************)
(* Window Optimizer: analyze_league_rosters.py, lines 59-103.              *)
(***************************************************************************)
\* range(3, 91, 3)
WindowStart == 3
WindowStop == 91
WindowStep == 3
AllWindows ==
    {w \in WindowStart..(WindowStop - 1) : (w - WindowStart) % WindowStep = 0}

\* The sweep is bounded to NumWindows of the 30 candidates: the first one
\* (whose correlation seeds max()) and the largest NumWindows - 1 (the last
\* of which is the fallback window).
NumWindows == 3
MaxPairRows == 2
OptPlayers == 2

RECURSIVE SortedSeq(_)
SortedSeq(S) ==
    IF S = {} THEN <<>>
    ELSE LET m == CHOOSE x \in S : \A y \in S : x <= y
         IN  <<m>> \o SortedSeq(S \ {m})

windows ==
    SortedSeq({w \in AllWindows :
                  \/ w = WindowStart
                  \/ w > (WindowStop - 1) - WindowStep * (NumWindows - 1)})

\* future_7 = pivot_val.rolling(window=7).mean().shift(-7)
FutureHorizon == 7

\* Number of (date, player) pairs left by concat(...).dropna() for window w:
\* past_w is defined at row positions t >= w - 1, future_7 at t <= n - 8.
PairCount(w, n, p) ==
    LET rows == n - FutureHorizon - (w - 1)
    IN  IF rows > 0 THEN rows * p ELSE 0

\* Correlation values the data can produce, in hundredths.
CorrVals == {MkTerm(c, 100, 1) : c \in {-80, -50, 0, 50, 75, 80}}

\* Series.corr: NaN with fewer than 2 paired observations, and NaN when
\* either side has zero variance.  All candidates are multiples of the first
\* one, so when the first window's correlation is undefined (too few pairs,
\* or a side that is constant on its pairs) every later one is undefined too.
CorrOutcomes(w, n, p, table) ==
    IF PairCount(w, n, p) < 2 THEN {NaN}
    ELSE IF windows[1] \in DOMAIN table /\ table[windows[1]] = NaN THEN {NaN}
    ELSE CorrVals \cup {NaN}

\* Python's max() over the dict values in insertion order: the running
\* maximum is replaced only when "item > max" is True, so a leading NaN
\* stays and a later NaN is skipped.
RECURSIVE PyMaxFrom(_, _)
PyMaxFrom(m, rest) ==
    IF rest = <<>> THEN m
    ELSE PyMaxFrom(IF NumLess(m, Head(rest)) /\ m # NaN /\ Head(rest) # NaN
                   THEN Head(rest) ELSE m,
                   Tail(rest))

PyMax(vals) == PyMaxFrom(Head(vals), Tail(vals))

CorrValues(table) == [i \in 1..Len(windows) |-> table[windows[i]]]

\* Faulty variant: the threshold taken above the maximum.
ThresholdAbove(m) == NumScale(m, 11, 10)

\* threshold = 0.90 * max_corr
Threshold(m) == NumScale(m, 9, 10)

\* Faulty variant: strict comparison.
PassesStrict(c, thr) == NumLess(thr, c) /\ c # NaN /\ thr # NaN

\* if correlations[w] >= threshold
Passes(c, thr) == NumGeq(c, thr)

FallbackWindow == 90

DateCounts ==
    {windows[i] + FutureHorizon - 1 + k : i \in 1..Len(windows), k \in 0..MaxPairRows}

OptInit ==
    /\ opc = "sweep"
    /\ nDates \in DateCounts
    /\ nPlayers \in 1..OptPlayers
    /\ w_idx = 1
    /\ correlations = <<>>
    /\ max_corr = Zero
    /\ threshold = Zero
    /\ best_window = 28
    /\ best_corr = IntNum(-1)

\* for w in windows: ... correlations[w] = corr
Sweep ==
    /\ opc = "sweep"
    /\ w_idx <= Len(windows)
    /\ \E corr \in CorrOutcomes(windows[w_idx], nDates, nPlayers, correlations) :
          correlations' = correlations @@ (windows[w_idx] :> corr)
    /\ w_idx' = w_idx + 1
    /\ UNCHANGED <<opc, nDates, nPlayers, max_corr, threshold, best_window, best_corr>>
    /\ UNCHANGED notOptVars

\* max_corr = max(...); threshold = 0.90 * max_corr; best_window = 90; best_corr = 0
ComputeThreshold ==
    /\ opc = "sweep"
    /\ w_idx > Len(windows)
    /\ max_corr' = PyMax(CorrValues(correlations))
    /\ threshold' = Threshold(PyMax(CorrValues(correlations)))
    /\ best_window' = FallbackWindow
    /\ best_corr' = Zero
    /\ w_idx' = 1
    /\ opc' = "select"
    /\ UNCHANGED <<nDates, nPlayers, correlations>>
    /\ UNCHANGED notOptVars

\* for w in sorted(windows): if correlations[w] >= threshold: ...; break
SelectHit ==
    /\ opc = "select"
    /\ w_idx <= Len(windows)
    /\ Passes(correlations[windows[w_idx]], threshold)
    /\ best_window' = windows[w_idx]
    /\ best_corr' = correlations[windows[w_idx]]
    /\ opc' = "done"
    /\ UNCHANGED <<nDates, nPlayers, w_idx, correlations, max_corr, threshold>>
    /\ UNCHANGED notOptVars

SelectMiss ==
    /\ opc = "select"
    /\ w_idx <= Len(windows)
    /\ ~Passes(correlations[windows[w_idx]], threshold)
    /\ w_idx' = w_idx + 1
    /\ UNCHANGED <<opc, nDates, nPlayers, correlations, max_corr, threshold,
                   best_window, best_corr>>
    /\ UNCHANGED notOptVars

\* The loop ends without a break: the fallback values stay.
SelectExhausted ==
    /\ opc = "select"
    /\ w_idx > Len(windows)
    /\ opc' = "done"
    /\ UNCHANGED <<nDates, nPlayers, w_idx, correlations, max_corr, threshold,
                   best_window, best_corr>>
    /\ UNCHANGED notOptVars

OptNext == Sweep \/ ComputeThreshold \/ SelectHit \/ SelectMiss \/ SelectExhausted

OptIdle ==
    /\ opc = "idle"
    /\ nDates = 0
    /\ nPlayers = 0
    /\ w_idx = 0
    /\ correlations = <<>>
    /\ max_corr = Zero
    /\ threshold = Zero
    /\ best_window = 0
    /\ best_corr = Zero


(***************************************************************************)
(* Category Normalizer: calculate_z_scores, analyze_keepers.py 11-43.      *)
(***************************************************************************)
\* Bounds on the cohort and on the category list.
MaxPlayers == 2
MaxRaw == 1
MaxCats == 2

\* Category names of the model: one that main() passes as lower-is-better
\* and one that it does not.
CatNames == {"ERA", "QS"}

\* The ascending lists main() passes: [] for batters, ['ERA', 'WHIP'] for
\* pitchers.
AscChoices == {{}, {"ERA", "WHIP"}}

\* Raw values reach calculate_z_scores after replace(inf -> NaN).fillna(0):
\* no cell is NaN.
RawCells == {IntNum(k) : k \in 0..MaxRaw}

Column(table, name) == [i \in 1..Len(table) |-> table[i][name]]

\* z_col = f"z_{cat}"
ZColName(cat) == <<"z_", cat>>

\* Faulty variant: no guard on a zero standard deviation.
StdScoreUnguarded(x, mean, std) == NumDiv(NumSub(x, mean), std)

\* if std == 0: 0 else: (df[cat] - mean) / std.  "std == 0" is False for NaN.
StdScore(x, mean, std) ==
    IF std = Zero THEN Zero ELSE NumDiv(NumSub(x, mean), std)

\* Faulty variant: the sign is never inverted.
AscFlipNever(z, cat, asc) == z

\* if cat in ascending_categories: z * -1
AscFlip(z, cat, asc) == IF cat \in asc THEN NumNeg(z) ELSE z

\* One pass of the loop body for category cat: the new z column.
ZColumn(table, cat, asc) ==
    LET col  == Column(table, cat)
        mean == ColMean(col)
        std  == ColStd(col)
    IN  [i \in 1..Len(table) |-> AscFlip(StdScore(col[i], mean, std), cat, asc)]

\* DataFrame.sum(axis=1): skipna, NaN cells count as 0.
SkipNaSum(cells) == NumSumSeq([k \in 1..Len(cells) |-> FillNa0(cells[k])])

\* z_score_df[z_cols].sum(axis=1) for row i: selecting by a list of labels
\* yields one column per list entry, a repeated label giving a repeated column.
RowTotal(zdf, zcols, i) ==
    SkipNaSum([k \in 1..Len(zcols) |-> zdf[zcols[k]][i]])

ZInit ==
    /\ zpc = "loop"
    /\ df \in UNION {[1..n -> [CatNames -> RawCells]] : n \in 1..MaxPlayers}
    /\ categories \in UNION {[1..k -> CatNames] : k \in 1..MaxCats}
    /\ ascending_categories \in AscChoices
    /\ cat_idx = 1
    /\ z_score_df = <<>>
    /\ z_cols = <<>>
    /\ Total_Z = <<>>

\* Loop body, branch "if std == 0".
ZStdZero ==
    /\ zpc = "loop"
    /\ cat_idx <= Len(categories)
    /\ ColStd(Column(df, categories[cat_idx])) = Zero
    /\ z_score_df' = (ZColName(categories[cat_idx]) :>
                         ZColumn(df, categories[cat_idx], ascending_categories))
                     @@ z_score_df
    /\ z_cols' = Append(z_cols, ZColName(categories[cat_idx]))
    /\ cat_idx' = cat_idx + 1
    /\ UNCHANGED <<zpc, df, categories, ascending_categories, Total_Z>>
    /\ UNCHANGED notZVars

\* Loop body, branch "else" (std nonzero or NaN).
ZScaled ==
    /\ zpc = "loop"
    /\ cat_idx <= Len(categories)
    /\ ColStd(Column(df, categories[cat_idx])) # Zero
    /\ z_score_df' = (ZColName(categories[cat_idx]) :>
                         ZColumn(df, categories[cat_idx], ascending_categories))
                     @@ z_score_df
    /\ z_cols' = Append(z_cols, ZColName(categories[cat_idx]))
    /\ cat_idx' = cat_idx + 1
    /\ UNCHANGED <<zpc, df, categories, ascending_categories, Total_Z>>
    /\ UNCHANGED notZVars

\* z_score_df['Total_Z'] = z_score_df[z_cols].sum(axis=1); return
ZTotal ==
    /\ zpc = "loop"
    /\ cat_idx > Len(categories)
    /\ Total_Z' = [i \in 1..Len(df) |-> RowTotal(z_score_df, z_cols, i)]
    /\ zpc' = "done"
    /\ UNCHANGED <<df, categories, ascending_categories, cat_idx, z_score_df, z_cols>>
    /\ UNCHANGED notZVars

ZNext == ZStdZero \/ ZScaled \/ ZTotal

ZIdle ==
    /\ zpc = "idle"
    /\ df = <<>>
    /\ categories = <<>>
    /\ ascending_categories = {}
    /\ cat_idx = 0
    /\ z_score_df = <<>>
    /\ z_cols = <<>>
    /\ Total_Z = <<>>

(***************************************************************************)
(* Daily Value Aggregator: calculate_daily_value, as defined in            *)
(* analyze_league_rosters.py 32-50, generate_roster_recommendations.py     *)
(* 32-50 and run_ts_analysis.py 22-55.                                     *)
(***************************************************************************)
batter_stats == <<"R", "HR", "RBI", "SB">>
pitcher_positive == <<"QS", "SVHD", "K">>
LoopCols == batter_stats \o pitcher_positive

BattingCols == {"R", "HR", "RBI", "SB", "H", "BB"}
PitchingCols == {"QS", "SVHD", "K", "P_H", "P_BB", "ER"}
AllCols == BattingCols \cup PitchingCols

Variants == {"analyze_league_rosters", "generate_roster_recommendations",
             "run_ts_analysis"}

\* Bounds on one date's group and on the columns missing from the table.
MaxDayRows == 2
MaxAbsent == 1

\* A row of the daily CSV: the role tag, one cell value for its own role's
\* columns (always a number) and one for the other role's columns (a number,
\* or blank, which pandas reads as NaN).
RowProfiles ==
    [role : {"batter", "pitcher"},
     own : {IntNum(0), IntNum(1)},
     other : {NaN, IntNum(0), IntNum(1)}]

ProfileCell(r, col) ==
    IF (r.role = "batter") = (col \in BattingCols) THEN r.own ELSE r.other

AbsentSets == {A \in SUBSET AllCols : Cardinality(A) <= MaxAbsent}

\* std = 1 if std == 0 else std   (NaN is kept)
StdOrOne(std) == IF std = Zero THEN IntNum(1) ELSE std

\* ((col - mean) / std).fillna(0), the cell of row i
ZTerm(col, i) ==
    FillNa0(NumDiv(NumSub(col[i], ColMean(col)), StdOrOne(ColStd(col))))

\* whip_val = df['P_H'] + df['P_BB']
WhipVal(table) == [i \in 1..Len(table["P_H"]) |-> NumAdd(table["P_H"][i], table["P_BB"][i])]

\* The condition under which each copy enters the walks-plus-hits block.
WhipGuard(v, cols) ==
    IF v = "run_ts_analysis"
    THEN "H" \in cols /\ "BB" \in cols
    ELSE "P_H" \in cols /\ "P_BB" \in cols

\* df['P_H'] + df['P_BB'] raises KeyError when either label is missing.
WhipKeyError(cols) == ~("P_H" \in cols /\ "P_BB" \in cols)

NRows == Len(day.roles)

DVInit ==
    /\ dpc = "start"
    /\ variant \in Variants
    /\ \E n \in 1..MaxDayRows : \E rows \in [1..n -> RowProfiles] :
       \E absent \in AbsentSets :
          day = [roles |-> [i \in 1..n |-> rows[i].role],
                 cols  |-> [c \in AllCols \ absent |->
                               [i \in 1..n |-> ProfileCell(rows[i], c)]]]
    /\ col_idx = 1
    /\ Daily_Value = <<>>
    /\ raised = FALSE

\* df['Daily_Value'] = 0.0
DVStart ==
    /\ dpc = "start"
    /\ Daily_Value' = [i \in 1..NRows |-> Zero]
    /\ dpc' = "columns"
    /\ UNCHANGED <<variant, day, col_idx, raised>>
    /\ UNCHANGED notDVVars

\* for col in batter_stats + pitcher_positive: if col in df.columns: += z
DVColumnAdd ==
    /\ dpc = "columns"
    /\ col_idx <= Len(LoopCols)
    /\ LoopCols[col_idx] \in DOMAIN day.cols
    /\ Daily_Value' = [i \in 1..NRows |->
                          NumAdd(Daily_Value[i], ZTerm(day.cols[LoopCols[col_idx]], i))]
    /\ col_idx' = col_idx + 1
    /\ UNCHANGED <<dpc, variant, day, raised>>
    /\ UNCHANGED notDVVars

DVColumnSkip ==
    /\ dpc = "columns"
    /\ col_idx <= Len(LoopCols)
    /\ LoopCols[col_idx] \notin DOMAIN day.cols
    /\ col_idx' = col_idx + 1
    /\ UNCHANGED <<dpc, variant, day, Daily_Value, raised>>
    /\ UNCHANGED notDVVars

\* The walks-plus-hits block is entered and both pitcher columns exist.
DVWhipSubtract ==
    /\ dpc = "columns"
    /\ col_idx > Len(LoopCols)
    /\ WhipGuard(variant, DOMAIN day.cols)
    /\ ~WhipKeyError(DOMAIN day.cols)
    /\ Daily_Value' = [i \in 1..NRows |->
                          NumSub(Daily_Value[i], ZTerm(WhipVal(day.cols), i))]
    /\ dpc' = "er"
    /\ UNCHANGED <<variant, day, col_idx, raised>>
    /\ UNCHANGED notDVVars

\* The block is entered and df['P_H'] or df['P_BB'] does not exist.
DVWhipKeyError ==
    /\ dpc = "columns"
    /\ col_idx > Len(LoopCols)
    /\ WhipGuard(variant, DOMAIN day.cols)
    /\ WhipKeyError(DOMAIN day.cols)
    /\ raised' = TRUE
    /\ dpc' = "done"
    /\ UNCHANGED <<variant, day, col_idx, Daily_Value>>
    /\ UNCHANGED notDVVars

DVWhipSkip ==
    /\ dpc = "columns"
    /\ col_idx > Len(LoopCols)
    /\ ~WhipGuard(variant, DOMAIN day.cols)
    /\ dpc' = "er"
    /\ UNCHANGED <<variant, day, col_idx, Daily_Value, raised>>
    /\ UNCHANGED notDVVars

\* if 'ER' in df.columns: Daily_Value -= z(ER); return df
DVErSubtract ==
    /\ dpc = "er"
    /\ "ER" \in DOMAIN day.cols
    /\ Daily_Value' = [i \in 1..NRows |->
                          NumSub(Daily_Value[i], ZTerm(day.cols["ER"], i))]
    /\ dpc' = "done"
    /\ UNCHANGED <<variant, day, col_idx, raised>>
    /\ UNCHANGED notDVVars

DVErSkip ==
    /\ dpc = "er"
    /\ "ER" \notin DOMAIN day.cols
    /\ dpc' = "done"
    /\ UNCHANGED <<variant, day, col_idx, Daily_Value, raised>>
    /\ UNCHANGED notDVVars

DVNext ==
    \/ DVStart \/ DVColumnAdd \/ DVColumnSkip
    \/ DVWhipSubtract \/ DVWhipKeyError \/ DVWhipSkip
    \/ DVErSubtract \/ DVErSkip

DVIdle ==
    /\ dpc = "idle"
    /\ variant = "none"
    /\ day = [roles |-> <<>>, cols |-> <<>>]
    /\ col_idx = 0
    /\ Daily_Value = <<>>
    /\ raised = FALSE

(***************************************************************************)
(* Rolling Window Engine: analyze_league_rosters.py 56-82 and              *)
(* generate_roster_recommendations.py 56-66.  Both scripts pivot the long  *)
(* table the same way and roll it with an integer window; the recommender  *)
(* then stacks the rolling table (lines 65-66) and the optimizer pairs it  *)
(* with the shifted 7-row mean (lines 70-82).  The model runs both         *)
(* continuations on the one rolling table.                                 *)
(***************************************************************************)
\* Bounds: calendar days from the first to the last observed date, the
\* largest window, and the largest daily value of the steady player.
MaxCal == 11
MaxWindow == 4
MaxDV == 2

\* The long tables of the model.  Player "a" has a record of value v on
\* every observed date, except (when rests) the date of player b's one
\* record; player "b" has a single record, on day k (none when k = 0).
\* Calendar day gap (when not 0) has no record for any player.
LongTable(n, gap, v, k, rests) ==
    {[date |-> d, player |-> "a", val |-> IntNum(v)] :
        d \in (1..n) \ ({gap} \cup (IF rests THEN {k} ELSE {}))}
    \cup (IF k = 0 THEN {} ELSE {[date |-> k, player |-> "b", val |-> IntNum(1)]})

\* The index and the columns of player_daily.pivot(index='date', ...).
PivotDates(long) == SortedSeq({r.date : r \in long})
PivotPlayers(long) == {r.player : r \in long}

\* One cell of the pivot: NaN where the long table has no record.
PivotCell(long, d, p) ==
    IF \E r \in long : r.date = d /\ r.player = p
    THEN (CHOOSE r \in long : r.date = d /\ r.player = p).val
    ELSE NaN

\* pivot(index='date', columns='espn_player_id', values='Daily_Value').fillna(0)
Pivot(long) ==
    [dates |-> PivotDates(long),
     cols  |-> [p \in PivotPlayers(long) |->
                   [t \in 1..Len(PivotDates(long)) |->
                       FillNa0(PivotCell(long, PivotDates(long)[t], p))]]]

\* Faulty variant: the rolling sum, not divided by the window.
RollingSum(col, w) ==
    [t \in 1..Len(col) |->
        IF t < w THEN NaN ELSE NumSumSeq(SubSeq(col, t - w + 1, t))]

\* Series.rolling(window=w).mean(): the window is w ROWS ending at row t,
\* min_periods defaults to w, so rows 1 .. w-1 are NaN.
RollingMean(col, w) ==
    [t \in 1..Len(col) |->
        IF t < w THEN NaN
        ELSE NumDiv(NumSumSeq(SubSeq(col, t - w + 1, t)), IntNum(w))]

\* Faulty variant: a shift one row short, which lets row t into its own
\* future window.
ShiftBackShort(col, k) ==
    [t \in 1..Len(col) |->
        IF t + k - 1 <= Len(col) THEN col[t + k - 1] ELSE NaN]

\* Series.shift(-k): row t takes the value of row t + k, NaN past the end.
ShiftBack(col, k) ==
    [t \in 1..Len(col) |-> IF t + k <= Len(col) THEN col[t + k] ELSE NaN]

\* Faulty variant: stack that keeps the NaN cells.
StackKeepNaN(dates, cols) ==
    {[date |-> dates[x[2]], player |-> x[1], val |-> cols[x[1]][x[2]]] :
        x \in (DOMAIN cols) \X (1..Len(dates))}

\* DataFrame.stack(): one record per cell, NaN cells dropped (dropna=True).
Stack(dates, cols) ==
    {[date |-> dates[x[2]], player |-> x[1], val |-> cols[x[1]][x[2]]] :
        x \in {y \in (DOMAIN cols) \X (1..Len(dates)) : cols[y[1]][y[2]] # NaN}}

\* The value a stacked series holds at index (d, p), NaN when it has none.
StackedAt(stacked, d, p) ==
    IF \E r \in stacked : r.date = d /\ r.player = p
    THEN (CHOOSE r \in stacked : r.date = d /\ r.player = p).val
    ELSE NaN

\* pd.concat([aligned_past, aligned_fut], axis=1).dropna(): outer join on
\* the index (date, player), then the rows with a NaN on either side go.
Align(past, fut) ==
    LET keys == {<<r.date, r.player>> : r \in past \cup fut}
        rows == {[date |-> x[1], player |-> x[2],
                  Past |-> StackedAt(past, x[1], x[2]),
                  Future |-> StackedAt(fut, x[1], x[2])] : x \in keys}
    IN  {r \in rows : r.Past # NaN /\ r.Future # NaN}

RollInit ==
    /\ rpc = "pivot"
    /\ window \in WindowStart..MaxWindow
    /\ \E n \in 1..MaxCal : \E gap \in {0} \cup (2..(n - 1)) :
       \E v \in 1..MaxDV : \E k \in (0..n) \ (IF gap = 0 THEN {} ELSE {gap}) :
       \E rests \in BOOLEAN :
          /\ rests => k # 0
          /\ player_daily = LongTable(n, gap, v, k, rests)
    /\ pivot_val = [dates |-> <<>>, cols |-> <<>>]
    /\ past_w = <<>>
    /\ rolling_long = {}
    /\ future_7 = <<>>
    /\ aligned = {}

\* pivot_val = player_daily.pivot(...).fillna(0)
RollPivot ==
    /\ rpc = "pivot"
    /\ pivot_val' = Pivot(player_daily)
    /\ rpc' = "roll"
    /\ UNCHANGED <<window, player_daily, past_w, rolling_long, future_7, aligned>>
    /\ UNCHANGED notRollVars

\* past_w = pivot_val.rolling(window=w).mean()   (rolling_val, WINDOW)
RollRolling ==
    /\ rpc = "roll"
    /\ past_w' = [p \in DOMAIN pivot_val.cols |->
                     RollingMean(pivot_val.cols[p], window)]
    /\ rpc' = "stack"
    /\ UNCHANGED <<window, player_daily, pivot_val, rolling_long, future_7, aligned>>
    /\ UNCHANGED notRollVars

\* rolling_long = rolling_val.stack().reset_index()
RollStack ==
    /\ rpc = "stack"
    /\ rolling_long' = Stack(pivot_val.dates, past_w)
    /\ rpc' = "future"
    /\ UNCHANGED <<window, player_daily, pivot_val, past_w, future_7, aligned>>
    /\ UNCHANGED notRollVars

\* future_7 = pivot_val.rolling(window=7).mean().shift(-7)
RollFuture ==
    /\ rpc = "future"
    /\ future_7' = [p \in DOMAIN pivot_val.cols |->
                       ShiftBack(RollingMean(pivot_val.cols[p], FutureHorizon),
                                 FutureHorizon)]
    /\ rpc' = "align"
    /\ UNCHANGED <<window, player_daily, pivot_val, past_w, rolling_long, aligned>>
    /\ UNCHANGED notRollVars

\* aligned = pd.concat([past_w.stack(), future_7.stack()], axis=1).dropna()
RollAlign ==
    /\ rpc = "align"
    /\ aligned' = Align(Stack(pivot_val.dates, past_w),
                        Stack(pivot_val.dates, future_7))
    /\ rpc' = "done"
    /\ UNCHANGED <<window, player_daily, pivot_val, past_w, rolling_long, future_7>>
    /\ UNCHANGED notRollVars

RollNext == RollPivot \/ RollRolling \/ RollStack \/ RollFuture \/ RollAlign

RollIdle ==
    /\ rpc = "idle"
    /\ window = 0
    /\ player_daily = {}
    /\ pivot_val = [dates |-> <<>>, cols |-> <<>>]
    /\ past_w = <<>>
    /\ rolling_long = {}
    /\ future_7 = <<>>
    /\ aligned = {}

(***************************************************************************)
(* Roster/Free-Agent Comparator: the body of the checkpoint loop of        *)
(* generate_roster_recommendations.py, lines 82-141, for one check_date.   *)
(***************************************************************************)
\* Bound on the target team's roster rows.
MaxRoster == 2

\* Literals of the script.
Sentinel == -999
MarginCents == 75
TopFAs == 20
TopOptions == 2

\* Rolling values of the model, in hundredths.
RollCents == {50, 100, 170, 175, 180}
RollVals == {MkTerm(c, 100, 1) : c \in RollCents}
Margin == MkTerm(MarginCents, 100, 1)

\* The free-agent tables of the model: each rolling value is held by no
\* unrostered player or by one, and at most one value is held by a crowd
\* as large as the candidate list is long.
FATables ==
    {[v \in RollVals |-> IF v \in crowd THEN TopFAs ELSE base[v]] :
        base \in [RollVals -> {0, 1}],
        crowd \in {{}} \cup {{v} : v \in RollVals}}

\* my_stat of a roster row: the Rolling_Value cells of the day_stats rows
\* with the player's id; empty when the player has no row on the date.
RosterCents == {50, 100}
MyStats == {{}} \cup {{MkTerm(c, 100, 1)} : c \in RosterCents}

Repeat(v, n) == [i \in 1..n |-> v]

\* sort_values('Rolling_Value', ascending=False) over a table given as
\* value -> number of rows: rows of equal value are alike here, so the
\* order the sort leaves among them does not show.
RECURSIVE SortDescending(_)
SortDescending(bag) ==
    LET held == {v \in DOMAIN bag : bag[v] > 0}
    IN  IF held = {} THEN <<>>
        ELSE LET m == CHOOSE v \in held : \A u \in held : NumGeq(v, u)
             IN  Repeat(m, bag[m]) \o SortDescending([bag EXCEPT ![m] = 0])

\* DataFrame.head(n)
HeadN(seq, n) == SubSeq(seq, 1, IF Len(seq) < n THEN Len(seq) ELSE n)

\* Faulty variant: the missing value compared as 0.
MyValZero(my_stat) ==
    IF my_stat = {} THEN Zero ELSE CHOOSE v \in my_stat : TRUE

\* if my_stat.empty: my_val = -999  else: my_stat['Rolling_Value'].values[0]
MyVal(my_stat) ==
    IF my_stat = {} THEN IntNum(Sentinel) ELSE CHOOSE v \in my_stat : TRUE

\* Faulty variant: a candidate exactly at the margin counts as better.
BetterOrEqual(top, my_val) ==
    SelectSeq(top, LAMBDA v : NumGeq(v, NumAdd(my_val, Margin)))

\* better = top_fas[top_fas['Rolling_Value'] > my_val + 0.75]
Better(top, my_val) ==
    SelectSeq(top, LAMBDA v : NumLess(NumAdd(my_val, Margin), v))

\* Faulty variant: the last rows of better.
OptionsFromEnd(better) ==
    SubSeq(better,
           IF Len(better) < TopOptions THEN 1 ELSE Len(better) - TopOptions + 1,
           Len(better))

\* better.head(2)
Options(better) == HeadN(better, TopOptions)

\* day_stats.empty: no player at all has a rolling value on check_date.
DayStatsEmpty ==
    /\ \A v \in DOMAIN fa_stats : fa_stats[v] = 0
    /\ taken_stats = {}
    /\ \A i \in 1..Len(current_roster) : current_roster[i] = {}

RecInit ==
    /\ cpc = "check"
    /\ current_roster \in UNION {[1..n -> MyStats] : n \in 0..MaxRoster}
    /\ fa_stats \in FATables
    /\ taken_stats \in {{}, {MkTerm(180, 100, 1)}}
    /\ top_fas = <<>>
    /\ row_idx = 0
    /\ recommendations = <<>>

\* if current_roster.empty: continue
RecSkipNoRoster ==
    /\ cpc = "check"
    /\ current_roster = <<>>
    /\ cpc' = "done"
    /\ UNCHANGED <<current_roster, fa_stats, taken_stats, top_fas, row_idx,
                   recommendations>>
    /\ UNCHANGED notRecVars

\* if day_stats.empty: continue
RecSkipNoStats ==
    /\ cpc = "check"
    /\ current_roster # <<>>
    /\ DayStatsEmpty
    /\ cpc' = "done"
    /\ UNCHANGED <<current_roster, fa_stats, taken_stats, top_fas, row_idx,
                   recommendations>>
    /\ UNCHANGED notRecVars

\* fa_stats = day_stats[~isin(all_rostered)]; top_fas = sort(...).head(20)
RecRank ==
    /\ cpc = "check"
    /\ current_roster # <<>>
    /\ ~DayStatsEmpty
    /\ top_fas' = HeadN(SortDescending(fa_stats), TopFAs)
    /\ row_idx' = 1
    /\ cpc' = "compare"
    /\ UNCHANGED <<current_roster, fa_stats, taken_stats, recommendations>>
    /\ UNCHANGED notRecVars

\* Loop body, "if not better.empty": a recommendation row is appended.
RecFlag ==
    /\ cpc = "compare"
    /\ row_idx <= Len(current_roster)
    /\ Better(top_fas, MyVal(current_roster[row_idx])) # <<>>
    /\ recommendations' =
          Append(recommendations,
                 [My_Player |-> row_idx,
                  My_Value  |-> MyVal(current_roster[row_idx]),
                  Better_FA |-> Options(Better(top_fas, MyVal(current_roster[row_idx])))])
    /\ row_idx' = row_idx + 1
    /\ UNCHANGED <<cpc, current_roster, fa_stats, taken_stats, top_fas>>
    /\ UNCHANGED notRecVars

\* Loop body, better is empty: nothing is appended.
RecNoFlag ==
    /\ cpc = "compare"
    /\ row_idx <= Len(current_roster)
    /\ Better(top_fas, MyVal(current_roster[row_idx])) = <<>>
    /\ row_idx' = row_idx + 1
    /\ UNCHANGED <<cpc, current_roster, fa_stats, taken_stats, top_fas,
                   recommendations>>
    /\ UNCHANGED notRecVars

\* The roster loop is over.
RecEnd ==
    /\ cpc = "compare"
    /\ row_idx > Len(current_roster)
    /\ cpc' = "done"
    /\ UNCHANGED <<current_roster, fa_stats, taken_stats, top_fas, row_idx,
                   recommendations>>
    /\ UNCHANGED notRecVars

RecNext ==
    \/ RecSkipNoRoster \/ RecSkipNoStats \/ RecRank
    \/ RecFlag \/ RecNoFlag \/ RecEnd

RecIdle ==
    /\ cpc = "idle"
    /\ current_roster = <<>>
    /\ fa_stats = <<>>
    /\ taken_stats = {}
    /\ top_fas = <<>>
    /\ row_idx = 0
    /\ recommendations = <<>>

(***************************************************************************)
(* Season Ranker, derived rate stats: analyze_keepers.py, lines 102-115,   *)
(* on one row of player_stats.                                             *)
(***************************************************************************)
\* Bound on a season total.
MaxTotal == 1

\* The summed columns the rate stats read.
TotalCols == {"H", "B_BB", "HBP", "PA", "TB", "AB", "ER", "OUTS", "P_BB", "P_H", "K"}
RateCols == {"OBP", "SLG", "OPS", "IP", "ERA", "WHIP", "K/9"}

\* The two infinities of a double; like NaN they are not sums of terms.
PosInf == {[rad |-> 0, n |-> 1, d |-> 0]}
NegInf == {[rad |-> 0, n |-> -1, d |-> 0]}
Finite(x) == x \notin {NaN, PosInf, NegInf}

\* x / y on float columns (numpy, no exception): a finite x over 0 is NaN
\* for x = 0 and a signed infinity otherwise.
FloatDiv(x, y) ==
    IF ~Finite(x) \/ ~Finite(y) THEN NaN
    ELSE IF y = Zero
         THEN (IF x = Zero THEN NaN ELSE IF IsPos(x) THEN PosInf ELSE NegInf)
         ELSE NumDiv(x, y)

\* x + y on float columns: NaN absorbs, inf + (-inf) is NaN, inf absorbs.
FloatAdd(x, y) ==
    IF x = NaN \/ y = NaN THEN NaN
    ELSE IF {x, y} = {PosInf, NegInf} THEN NaN
    ELSE IF PosInf \in {x, y} THEN PosInf
    ELSE IF NegInf \in {x, y} THEN NegInf
    ELSE NumAdd(x, y)

\* Faulty variant: infinities become NaN and NaN stays.
GuardInfOnly(x) == IF x \in {PosInf, NegInf} THEN NaN ELSE x

\* .replace([np.inf, -np.inf], np.nan).fillna(0) on one cell
Guard(x) == FillNa0(IF x \in {PosInf, NegInf} THEN NaN ELSE x)

RateInit ==
    /\ qpc = "batting"
    /\ player_stats \in [TotalCols -> {IntNum(k) : k \in 0..MaxTotal}]

\* OBP = (H + B_BB + HBP) / PA;  SLG = TB / AB;  OPS = OBP + SLG
RateBatting ==
    /\ qpc = "batting"
    /\ LET obp == FloatDiv(NumAdd(NumAdd(player_stats["H"], player_stats["B_BB"]),
                                  player_stats["HBP"]),
                           player_stats["PA"])
           slg == FloatDiv(player_stats["TB"], player_stats["AB"])
       IN  player_stats' = ("OBP" :> obp) @@ ("SLG" :> slg)
                           @@ ("OPS" :> FloatAdd(obp, slg)) @@ player_stats
    /\ qpc' = "pitching"
    /\ UNCHANGED notRateVars

\* IP = OUTS / 3.0;  ERA = ER * 9 / IP;  WHIP = (P_BB + P_H) / IP;
\* K/9 = K * 9 / IP
RatePitching ==
    /\ qpc = "pitching"
    /\ LET ip == FloatDiv(player_stats["OUTS"], IntNum(3))
       IN  player_stats' =
               ("IP" :> ip)
               @@ ("ERA" :> FloatDiv(NumScale(player_stats["ER"], 9, 1), ip))
               @@ ("WHIP" :> FloatDiv(NumAdd(player_stats["P_BB"], player_stats["P_H"]), ip))
               @@ ("K/9" :> FloatDiv(NumScale(player_stats["K"], 9, 1), ip))
               @@ player_stats
    /\ qpc' = "guard"
    /\ UNCHANGED notRateVars

\* player_stats = player_stats.replace([np.inf, -np.inf], np.nan).fillna(0)
RateGuard ==
    /\ qpc = "guard"
    /\ player_stats' = [c \in DOMAIN player_stats |-> Guard(player_stats[c])]
    /\ qpc' = "done"
    /\ UNCHANGED notRateVars

RateNext == RateBatting \/ RatePitching \/ RateGuard

RateIdle ==
    /\ qpc = "idle"
    /\ player_stats = <<>>

(***************************************************************************)
(* Season Ranker, cohorts and top 5 per team: analyze_keepers.py, lines    *)
(* 117-180, on player_stats as it stands after the guard of line 115.      *)
(***************************************************************************)
\* Bound on the rows of player_stats.
MaxSeason == 6

\* Literals of main().
min_pa == 200
min_ip == 50
TopKeepers == 5
batting_cats == <<"R", "HR", "RBI", "SB", "OPS">>
pitching_cats == <<"ERA", "WHIP", "K/9", "QS", "SVHD">>
ascending_cats == {"ERA", "WHIP"}
StatCols == {"R", "HR", "RBI", "SB", "OPS", "ERA", "WHIP", "K/9", "QS", "SVHD"}

\* One row of player_stats.  A batter's season shows in R and a pitcher's
\* in QS (raw); every other category is 0.  A qualified batter stands at
\* min_pa plate appearances and a qualified pitcher at 3 * min_ip outs; an
\* unqualified one is one short.
SeasonRow(i, role, team, qualified, raw) ==
    [c \in StatCols |->
        IF (role = "batter" /\ c = "R") \/ (role = "pitcher" /\ c = "QS")
        THEN IntNum(raw) ELSE Zero]
    @@ [playerId |-> i, teamId |-> team, b_or_p |-> role,
        PA   |-> IF role = "batter"
                 THEN (IF qualified THEN min_pa ELSE min_pa - 1) ELSE 0,
        OUTS |-> IF role = "pitcher"
                 THEN (IF qualified THEN 3 * min_ip ELSE 3 * min_ip - 1) ELSE 0]

\* The tables of the model, in playerId order (groupby sorts its keys): the
\* first row may be a pitcher, the first or the last row may belong to team
\* 2 (away), and the second row (the only row of a one-row table) may be
\* unqualified (bench).
SeasonTables ==
    UNION {
        {[i \in 1..n |->
             SeasonRow(i, IF pitcher_first /\ i = 1 THEN "pitcher" ELSE "batter",
                       IF i = away THEN 2 ELSE 1, i # bench, raw[i])] :
            raw \in [1..n -> {0, 1}], pitcher_first \in BOOLEAN,
            away \in {0, 1, n}, bench \in {0, IF n < 2 THEN n ELSE 2}}
        : n \in 1..MaxSeason}

\* The equal-key behaviours of sort_values(kind='quicksort') in the model:
\* rows of equal Total_Z come out in their order of arrival, or reversed.
TieKinds == {"first", "last"}

\* Faulty variant: the second run breaks ties the other way.
TieOrderFlipped(kind, r) ==
    IF r = 1 THEN kind ELSE CHOOSE k \in TieKinds : k # kind

\* The sort is a deterministic function of its input: both runs of one build
\* treat equal keys alike.
TieOrderOf(kind, r) == kind

\* player_stats[(b_or_p == 'batter') & (PA >= min_pa)]
Batters(rows) ==
    SelectSeq(rows, LAMBDA r : r.b_or_p = "batter" /\ r.PA >= min_pa)

\* player_stats[(b_or_p == 'pitcher') & (IP >= min_ip)], IP = OUTS / 3.0
Pitchers(rows) ==
    SelectSeq(rows, LAMBDA r : r.b_or_p = "pitcher" /\ r.OUTS >= 3 * min_ip)

\* calculate_z_scores(cohort, cats, asc): the cohort with its Total_Z.
CalculateZScores(cohort, cats, asc) ==
    LET zcols == [k \in 1..Len(cats) |-> ZColName(cats[k])]
        zdf   == [zc \in {zcols[k] : k \in 1..Len(cats)} |->
                     ZColumn(cohort, zc[2], asc)]
    IN  [i \in 1..Len(cohort) |->
            ("Total_Z" :> RowTotal(zdf, zcols, i)) @@ cohort[i]]

\* Series.unique(): the values in order of first appearance.
RECURSIVE UniqueInOrder(_)
UniqueInOrder(seq) ==
    IF seq = <<>> THEN <<>>
    ELSE <<Head(seq)>>
         \o UniqueInOrder(SelectSeq(Tail(seq), LAMBDA x : x # Head(seq)))

\* teams = all_ranked['teamId'].unique()
Teams(ranked) == UniqueInOrder([i \in 1..Len(ranked) |-> ranked[i].teamId])

RemoveAt(seq, i) == SubSeq(seq, 1, i - 1) \o SubSeq(seq, i + 1, Len(seq))

\* Faulty variant: the sort in ascending order of Total_Z.
RECURSIVE SortByTotalZAscending(_, _)
SortByTotalZAscending(rows, kind) ==
    IF rows = <<>> THEN <<>>
    ELSE LET low == {i \in 1..Len(rows) :
                        \A j \in 1..Len(rows) :
                            NumGeq(rows[j].Total_Z, rows[i].Total_Z)}
             i   == CHOOSE a \in low : \A b \in low : a <= b
         IN  <<rows[i]>> \o SortByTotalZAscending(RemoveAt(rows, i), kind)

\* team_df.sort_values(by='Total_Z', ascending=False): the default kind is
\* quicksort, which pandas documents as not stable; kind says what becomes
\* of rows with equal Total_Z.
RECURSIVE SortByTotalZ(_, _)
SortByTotalZ(rows, kind) ==
    IF rows = <<>> THEN <<>>
    ELSE LET top == {i \in 1..Len(rows) :
                        \A j \in 1..Len(rows) :
                            NumGeq(rows[i].Total_Z, rows[j].Total_Z)}
             i   == IF kind = "first"
                    THEN CHOOSE a \in top : \A b \in top : a <= b
                    ELSE CHOOSE a \in top : \A b \in top : a >= b
         IN  <<rows[i]>> \o SortByTotalZ(RemoveAt(rows, i), kind)

\* The greatest h in from .. from + 2*step - 1 with h - 1/2 <=
\* 100 * (n/d) * sqrt(rad), found by halving step (from itself qualifies).
RECURSIVE NearestFrom(_, _, _, _, _)
NearestFrom(from, step, n, d, radicand) ==
    IF step = 0 THEN from
    ELSE IF (2 * (from + step) - 1) * (2 * (from + step) - 1) * d * d
               <= 40000 * n * n * radicand
         THEN NearestFrom(from + step, step \div 2, n, d, radicand)
         ELSE NearestFrom(from, step \div 2, n, d, radicand)

\* round(x, 2) in hundredths, for a value with at most one term.  Ties (a
\* rational exactly half-way) go to the even neighbour, as Python rounds.
Round2(x) ==
    IF x = Zero THEN 0
    ELSE LET t == CHOOSE u \in x : TRUE
             a == Abs(t.n)
             q == (100 * a) \div t.d
             r == (100 * a) % t.d
             h == IF t.rad > 1 THEN NearestFrom(0, 256, a, t.d, t.rad)
                  ELSE IF 2 * r > t.d THEN q + 1
                  ELSE IF 2 * r < t.d THEN q
                  ELSE IF q % 2 = 0 THEN q ELSE q + 1
         IN  IF t.n < 0 THEN -h ELSE h

\* The dict appended to results for one row of top_5.
OutputRow(team_id, row) ==
    [Team_ID |-> team_id,
     Player |-> row.playerId,
     Position |-> IF row.b_or_p = "batter" THEN "Batter" ELSE "Pitcher",
     Total_Value |-> Round2(row.Total_Z)]

\* Row a sorts strictly before row b under by=['Team ID', 'Total Value (Z)'],
\* ascending=[True, False].
FinalBefore(a, b) ==
    \/ a.Team_ID < b.Team_ID
    \/ a.Team_ID = b.Team_ID /\ a.Total_Value > b.Total_Value

\* results_df.sort_values(by=[two keys], ...): with more than one key pandas
\* sorts through lexsort_indexer, which keeps equal rows in order.
RECURSIVE SortFinal(_)
SortFinal(rows) ==
    IF rows = <<>> THEN <<>>
    ELSE LET first == {i \in 1..Len(rows) :
                          \A j \in 1..Len(rows) : ~FinalBefore(rows[j], rows[i])}
             i     == CHOOSE a \in first : \A b \in first : a <= b
         IN  <<rows[i]>> \o SortFinal(RemoveAt(rows, i))

NoRun == [all_ranked |-> <<>>, results_df |-> <<>>, keep_raised |-> FALSE]

RankInit ==
    /\ kpc = "rank"
    /\ season \in SeasonTables
    /\ tie_order \in TieKinds
    /\ run = 1
    /\ all_ranked = <<>>
    /\ team_pos = 0
    /\ results = <<>>
    /\ results_df = <<>>
    /\ keep_raised = FALSE
    /\ first_run = NoRun

\* Lines 117-139: the two cohorts, their z-scores, all_ranked, teams.
KeepRank ==
    /\ kpc = "rank"
    /\ all_ranked' =
          CalculateZScores(Batters(season), batting_cats, {})
          \o CalculateZScores(Pitchers(season), pitching_cats, ascending_cats)
    /\ team_pos' = 1
    /\ results' = <<>>
    /\ kpc' = "teams"
    /\ UNCHANGED <<season, tie_order, run, results_df, keep_raised, first_run>>
    /\ UNCHANGED notRankVars

\* Lines 146-171: one pass of "for team_id in teams".  team_df is never
\* empty, team_id being a value of all_ranked['teamId'].
KeepTeam ==
    /\ kpc = "teams"
    /\ team_pos <= Len(Teams(all_ranked))
    /\ LET team_id == Teams(all_ranked)[team_pos]
           team_df == SelectSeq(all_ranked, LAMBDA r : r.teamId = team_id)
           top_5   == HeadN(SortByTotalZ(team_df, TieOrderOf(tie_order, run)),
                            TopKeepers)
       IN  results' = results \o [k \in 1..Len(top_5) |-> OutputRow(team_id, top_5[k])]
    /\ team_pos' = team_pos + 1
    /\ UNCHANGED <<kpc, season, tie_order, run, all_ranked, results_df,
                   keep_raised, first_run>>
    /\ UNCHANGED notRankVars

\* Lines 173-180: results_df = DataFrame(results).sort_values(...); to_csv
KeepFinal ==
    /\ kpc = "teams"
    /\ team_pos > Len(Teams(all_ranked))
    /\ results # <<>>
    /\ results_df' = SortFinal(results)
    /\ kpc' = IF run = 1 THEN "rerun" ELSE "done"
    /\ UNCHANGED <<season, tie_order, run, all_ranked, team_pos, results,
                   keep_raised, first_run>>
    /\ UNCHANGED notRankVars

\* Line 176 on an empty results list: DataFrame([]) has no 'Team ID' column
\* and sort_values raises KeyError.
KeepFinalRaise ==
    /\ kpc = "teams"
    /\ team_pos > Len(Teams(all_ranked))
    /\ results = <<>>
    /\ keep_raised' = TRUE
    /\ kpc' = IF run = 1 THEN "rerun" ELSE "done"
    /\ UNCHANGED <<season, tie_order, run, all_ranked, team_pos, results,
                   results_df, first_run>>
    /\ UNCHANGED notRankVars

\* The script is run again on the same daily_player_stats_2025.csv.
KeepRerun ==
    /\ kpc = "rerun"
    /\ first_run' = [all_ranked |-> all_ranked, results_df |-> results_df,
                     keep_raised |-> keep_raised]
    /\ run' = 2
    /\ all_ranked' = <<>>
    /\ team_pos' = 0
    /\ results' = <<>>
    /\ results_df' = <<>>
    /\ keep_raised' = FALSE
    /\ kpc' = "rank"
    /\ UNCHANGED <<season, tie_order>>
    /\ UNCHANGED notRankVars

RankNext == KeepRank \/ KeepTeam \/ KeepFinal \/ KeepFinalRaise \/ KeepRerun

RankIdle ==
    /\ kpc = "idle"
    /\ season = <<>>
    /\ tie_order = "none"
    /\ run = 0
    /\ all_ranked = <<>>
    /\ team_pos = 0
    /\ results = <<>>
    /\ results_df = <<>>
    /\ keep_raised = FALSE
    /\ first_run = NoRun

(***************************************************************************)
(* Roster patience, churn and Team Success Assessment:                     *)
(* analyze_league_rosters.py, lines 15-21 and 106-165.  Dates are day      *)
(* numbers; NaT is the blank end_date of an interval that is still open.   *)
(* Of describe() only the count is kept, and of team_churn only            *)
(* Total_Adds: the merges look at which teams the two tables hold, not at  *)
(* the other columns.                                                      *)
(***************************************************************************)
MaxTeamCal == 12

GraceDays == 7
DropBuffer == 3
NaT == 0
TeamNames == {"A", "B"}

\* player_daily: player 1 is worth d on day d and player 2 is worth 1 - d;
\* no player has a row on the gap day.
DailyTable(n, gap) ==
    {[date |-> d, espn_player_id |-> p,
      Daily_Value |-> IF p = 1 THEN d ELSE 1 - d] :
        d \in (1..n) \ {gap}, p \in 1..2}

\* Interval starts on either side of the grace period, interval ends on
\* either side of the drop buffer, and the open interval.
StartDates(n) == {1, 2, GraceDays + 2, GraceDays + 3} \cap (1..n)
EndDates(n) == ({n - DropBuffer - 1, n - DropBuffer, n} \cap (1..n)) \cup {NaT}

RosterRow(team, pid, n) ==
    {r \in [team_abbrev : {team}, player_id : {pid},
             start_date : StartDates(n), end_date : EndDates(n)] :
        r.end_date = NaT \/ r.end_date >= r.start_date}

\* roster_history: team A holds player 1 over one interval, and player 2 is
\* held by nobody, by team A or by team B.
RosterTables(n) ==
    {<<r>> : r \in RosterRow("A", 1, n)}
      \cup {<<r, q>> : r \in RosterRow("A", 1, n),
                       q \in UNION {RosterRow(t, 2, n) : t \in TeamNames}}

SetMax(S) == CHOOSE x \in S : \A y \in S : y <= x
SetMin(S) == CHOOSE x \in S : \A y \in S : x <= y

\* roster_df['end_date'].fillna(max_date), line 21.
FillEnd(rows, m) ==
    [i \in 1..Len(rows) |->
        IF rows[i].end_date = NaT THEN [rows[i] EXCEPT !.end_date = m]
        ELSE rows[i]]

\* groupby('team_abbrev') over the rows of index in kept: team -> row count.
\* A team without such a row has no entry.
GroupSize(rows, kept) ==
    LET keys == {rows[i].team_abbrev : i \in kept}
    IN  [t \in keys |-> Cardinality({i \in kept : rows[i].team_abbrev = t})]

\* Line 111: the interval ended more than DropBuffer days before max_date.
Dropped(r) == r.end_date < max_date - DropBuffer

\* Line 122: the interval started after the grace period.
Added(r, start) == r.start_date > start + GraceDays

\* Line 145, with the faulty variant that leaves the end date out.
ActiveOpenEnd(r, d) == r.start_date <= d /\ r.end_date > d
Active(r, d) == r.start_date <= d /\ r.end_date >= d

\* Lines 142 and 150: day_vals.get(pid, 0.0).
DayValGet(pid, d) ==
    LET hit == {x \in daily_table : x.date = d /\ x.espn_player_id = pid}
    IN  IF hit = {} THEN 0 ELSE (CHOOSE x \in hit : TRUE).Daily_Value

\* Lines 147-151 for one date: what the active rows of team t add.
DayGain(t, d) ==
    IntSumSeq([i \in 1..Len(roster_df) |->
        IF roster_df[i].team_abbrev = t /\ Active(roster_df[i], d)
        THEN DayValGet(roster_df[i].player_id, d) ELSE 0])

\* Line 132: roster_df['team_abbrev'].unique().
teams == {roster_df[i].team_abbrev : i \in 1..Len(roster_df)}

\* Line 155: the orders sort_values('Total_Value', ascending=False) can
\* leave the teams in (the order of equal totals is the sort's choice).
ValueOrders(tv) ==
    {o \in [1..Cardinality(DOMAIN tv) -> DOMAIN tv] :
        /\ \A i, j \in DOMAIN o : i # j => o[i] # o[j]
        /\ \A i, j \in DOMAIN o : i < j => tv[o[i]] >= tv[o[j]]}

\* Lines 160-162: the two merges are inner joins on the team.
InnerMerge(order, patience, churn) ==
    LET both(t) == t \in DOMAIN patience /\ t \in DOMAIN churn
        kept == SelectSeq(order, both)
    IN  [i \in 1..Len(kept) |->
            [team_abbrev |-> kept[i], Total_Value |-> team_values[kept[i]]]]

TeamInit ==
    /\ tpc = "load"
    /\ \E gap \in {0, 2, MaxTeamCal} :
          daily_table = DailyTable(MaxTeamCal, gap)
    /\ roster_df \in RosterTables(MaxTeamCal)
    /\ max_date = 0
    /\ season_start = 0
    /\ team_patience = <<>>
    /\ team_churn = <<>>
    /\ team_values = <<>>
    /\ d_idx = 0
    /\ success_df = <<>>
    /\ merged_metrics = <<>>

\* Lines 15-21.
TeamLoad ==
    /\ tpc = "load"
    /\ LET m == SetMax({x.date : x \in daily_table})
       IN  /\ max_date' = m
           /\ roster_df' = FillEnd(roster_df, m)
    /\ tpc' = "patience"
    /\ UNCHANGED <<daily_table, season_start, team_patience, team_churn,
                   team_values, d_idx, success_df, merged_metrics>>
    /\ UNCHANGED notTeamVars

\* Lines 110-114.
TeamPatience ==
    /\ tpc = "patience"
    /\ team_patience' =
          GroupSize(roster_df, {i \in 1..Len(roster_df) : Dropped(roster_df[i])})
    /\ tpc' = "churn"
    /\ UNCHANGED <<roster_df, daily_table, max_date, season_start, team_churn,
                   team_values, d_idx, success_df, merged_metrics>>
    /\ UNCHANGED notTeamVars

\* Lines 121-126.
TeamChurn ==
    /\ tpc = "churn"
    /\ LET start == SetMin({roster_df[i].start_date : i \in 1..Len(roster_df)})
       IN  /\ season_start' = start
           /\ team_churn' =
                 GroupSize(roster_df,
                           {i \in 1..Len(roster_df) : Added(roster_df[i], start)})
    /\ tpc' = "values"
    /\ UNCHANGED <<roster_df, daily_table, max_date, team_patience,
                   team_values, d_idx, success_df, merged_metrics>>
    /\ UNCHANGED notTeamVars

\* Lines 131-138.
TeamValuesInit ==
    /\ tpc = "values"
    /\ team_values' = [t \in teams |-> 0]
    /\ d_idx' = season_start
    /\ tpc' = "days"
    /\ UNCHANGED <<roster_df, daily_table, max_date, season_start,
                   team_patience, team_churn, success_df, merged_metrics>>
    /\ UNCHANGED notTeamVars

\* Lines 140-151: one date of date_range, all its active rows.
TeamDay ==
    /\ tpc = "days"
    /\ d_idx <= max_date
    /\ team_values' = [t \in teams |-> team_values[t] + DayGain(t, d_idx)]
    /\ d_idx' = d_idx + 1
    /\ UNCHANGED <<tpc, roster_df, daily_table, max_date, season_start,
                   team_patience, team_churn, success_df, merged_metrics>>
    /\ UNCHANGED notTeamVars

\* Lines 153-155, once date_range is exhausted.
TeamSuccess ==
    /\ tpc = "days"
    /\ d_idx > max_date
    /\ success_df' \in ValueOrders(team_values)
    /\ tpc' = "merge"
    /\ UNCHANGED <<roster_df, daily_table, max_date, season_start,
                   team_patience, team_churn, team_values, d_idx,
                   merged_metrics>>
    /\ UNCHANGED notTeamVars

\* Lines 160-162.
TeamMerge ==
    /\ tpc = "merge"
    /\ merged_metrics' = InnerMerge(success_df, team_patience, team_churn)
    /\ tpc' = "done"
    /\ UNCHANGED <<roster_df, daily_table, max_date, season_start,
                   team_patience, team_churn, team_values, d_idx, success_df>>
    /\ UNCHANGED notTeamVars

TeamNext ==
    \/ TeamLoad \/ TeamPatience \/ TeamChurn \/ TeamValuesInit
    \/ TeamDay \/ TeamSuccess \/ TeamMerge

TeamIdle ==
    /\ tpc = "idle"
    /\ roster_df = <<>>
    /\ daily_table = {}
    /\ max_date = 0
    /\ season_start = 0
    /\ team_patience = <<>>
    /\ team_churn = <<>>
    /\ team_values = <<>>
    /\ d_idx = 0
    /\ success_df = <<>>
    /\ merged_metrics = <<>>

(***************************************************************************)
(* Dashboard snapshot collector: process_dashboard_data.py, lines 90-114,  *)
(* 158-170 and main (591-639).  Runs follow one another on the same CSV    *)
(* file; the clock advances between and during runs.  Dates are day        *)
(* numbers.  A snapshot is the rows of players 1..k tagged with one date;  *)
(* k = 0 is a collection that returned no rows.  The HTML generation and   *)
(* the git push (lines 641-663) do not touch the CSV and are left out.     *)
(***************************************************************************)
MaxDashDay == 5
MaxSnapRows == 1

Lookback == 7

\* Lines 90-99: the dates of the rows of the file.
GetExistingDates(rows) == {rows[i].date : i \in 1..Len(rows)}

RECURSIVE SortedDates(_)
SortedDates(S) ==
    IF S = {} THEN <<>>
    ELSE LET m == CHOOSE x \in S : \A y \in S : x <= y
         IN  <<m>> \o SortedDates(S \ {m})

\* Lines 102-114, with today the clock's date at the call.
GetMissingDates(existing, lookback_days, today) ==
    SortedDates({today - i : i \in 0..(lookback_days - 1)} \ existing)

\* collect_live_snapshot(date_str) and collect_dry_run_snapshot(): k rows, one
\* per player, every one tagged date_str (flatten_player_to_row, line 126).
Snapshot(date_str, k) == [p \in 1..k |-> [date |-> date_str, player_id |-> p]]

\* Line 608, with the faulty variant that appends whatever the file holds.
DryAppendsAlways(date_str, existing) == TRUE
DryAppends(date_str, existing) == date_str \notin existing

\* Line 627: the loop collects only the date that is today.
LoopCollects(date_str, today) == date_str = today

\* Line 637.
CollectsToday(today, existing, miss) ==
    /\ today \notin existing
    /\ \A i \in 1..Len(miss) : miss[i] # today

\* The file earlier runs leave behind when none of the Lookback - 1 days
\* before day 1 was missed: one row for each of them.
PriorRows == [i \in 1..(Lookback - 1) |-> [date |-> i - Lookback + 1, player_id |-> 1]]

\* Day 1, with no file yet or with the file of the days before.
DashInit ==
    /\ mpc = "ready"
    /\ now = 1
    /\ csv_rows \in {<<>>, PriorRows}
    /\ dry_run = FALSE
    /\ existing_dates = {}
    /\ missing = <<>>
    /\ today_str = 0
    /\ date_idx = 0

\* The end of main as far as the CSV goes: the run's locals are gone.
RunEnds ==
    /\ mpc' = "ready"
    /\ dry_run' = FALSE
    /\ existing_dates' = {}
    /\ missing' = <<>>
    /\ today_str' = 0
    /\ date_idx' = 0

\* Midnight passes, between two runs or in the middle of one.
ClockTick ==
    /\ now < MaxDashDay
    /\ now' = now + 1
    /\ UNCHANGED <<mpc, csv_rows, dry_run, existing_dates, missing, today_str,
                   date_idx>>
    /\ UNCHANGED notDashVars

\* Lines 592-603: a run starts, with or without --dry-run.
DashBegin ==
    /\ mpc = "ready"
    /\ existing_dates' = GetExistingDates(csv_rows)
    /\ \E dry \in BOOLEAN :
          /\ dry_run' = dry
          /\ mpc' = IF dry THEN "dry" ELSE "missing"
    /\ UNCHANGED <<now, csv_rows, missing, today_str, date_idx>>
    /\ UNCHANGED notDashVars

\* Lines 605-611; the snapshot's date is the clock's date at line 449.
DashDryRun ==
    /\ mpc = "dry"
    /\ \E k \in 0..MaxSnapRows :
          csv_rows' = IF DryAppends(now, existing_dates)
                      THEN csv_rows \o Snapshot(now, k)
                      ELSE csv_rows
    /\ RunEnds
    /\ UNCHANGED now
    /\ UNCHANGED notDashVars

\* Line 614.
DashMissing ==
    /\ mpc = "missing"
    /\ missing' = GetMissingDates(existing_dates, Lookback, now)
    /\ mpc' = "today"
    /\ UNCHANGED <<now, csv_rows, dry_run, existing_dates, today_str, date_idx>>
    /\ UNCHANGED notDashVars

\* Lines 615-621, some date is missing: on to the loop.
DashToday ==
    /\ mpc = "today"
    /\ missing # <<>>
    /\ today_str' = now
    /\ date_idx' = 1
    /\ mpc' = "loop"
    /\ UNCHANGED <<now, csv_rows, dry_run, existing_dates, missing>>
    /\ UNCHANGED notDashVars

\* Lines 615-618, nothing is missing: the run appends nothing.
DashNoneMissing ==
    /\ mpc = "today"
    /\ missing = <<>>
    /\ RunEnds
    /\ UNCHANGED <<now, csv_rows>>
    /\ UNCHANGED notDashVars

\* Lines 623-629: the missing date is today, its snapshot is appended.
DashLoopCollect ==
    /\ mpc = "loop"
    /\ date_idx <= Len(missing)
    /\ LoopCollects(missing[date_idx], today_str)
    /\ \E k \in 0..MaxSnapRows :
          csv_rows' = csv_rows \o Snapshot(missing[date_idx], k)
    /\ date_idx' = date_idx + 1
    /\ UNCHANGED <<mpc, now, dry_run, existing_dates, missing, today_str>>
    /\ UNCHANGED notDashVars

\* Lines 630-634: a missing date before today is printed and skipped.
DashLoopSkip ==
    /\ mpc = "loop"
    /\ date_idx <= Len(missing)
    /\ ~LoopCollects(missing[date_idx], today_str)
    /\ date_idx' = date_idx + 1
    /\ UNCHANGED <<mpc, now, csv_rows, dry_run, existing_dates, missing,
                   today_str>>
    /\ UNCHANGED notDashVars

\* Lines 636-639, after the loop.
DashAlways ==
    /\ mpc = "loop"
    /\ date_idx > Len(missing)
    /\ \E k \in 0..MaxSnapRows :
          csv_rows' = IF CollectsToday(today_str, existing_dates, missing)
                      THEN csv_rows \o Snapshot(today_str, k)
                      ELSE csv_rows
    /\ RunEnds
    /\ UNCHANGED now
    /\ UNCHANGED notDashVars

\* Line 628 or 638: collect_live_snapshot raises (line 287, or the API
\* call fails) and the run ends where it is.
DashCollectRaises ==
    /\ mpc = "loop"
    /\ \/ /\ date_idx <= Len(missing)
          /\ LoopCollects(missing[date_idx], today_str)
       \/ /\ date_idx > Len(missing)
          /\ CollectsToday(today_str, existing_dates, missing)
    /\ RunEnds
    /\ UNCHANGED <<now, csv_rows>>
    /\ UNCHANGED notDashVars

DashNext ==
    \/ ClockTick \/ DashBegin \/ DashDryRun \/ DashMissing \/ DashToday
    \/ DashNoneMissing \/ DashLoopCollect \/ DashLoopSkip \/ DashAlways
    \/ DashCollectRaises

DashIdle ==
    /\ mpc = "idle"
    /\ now = 0
    /\ csv_rows = <<>>
    /\ dry_run = FALSE
    /\ existing_dates = {}
    /\ missing = <<>>
    /\ today_str = 0
    /\ date_idx = 0

(***************************************************************************)
(* Free-agent pool of one checkpoint, with the players' identities:        *)
(* generate_roster_recommendations.py, lines 19-21 and 82-141.  Rolling    *)
(* values are in hundredths.  Player 1 belongs to the target team, player  *)
(* 2 to another team, each over one interval or none; player 3 and the     *)
(* crowd (ids from 4 up) are on no roster.                                 *)
(***************************************************************************)
MaxCkDate == 4

TEAM_ABBREV == "PJR"

\* One interval of a player: any start, any later or equal end, or open.
CkIntervals(team, pid, n) ==
    {r \in [team_abbrev : {team}, player_id : {pid},
            start_date : 1..n, end_date : (1..n) \cup {NaT}] :
        r.end_date = NaT \/ r.end_date >= r.start_date}

\* roster_history: zero or one row for player 1 and for player 2.
CkRosters(n) ==
    LET one(team, pid) == {<<>>} \cup {<<r>> : r \in CkIntervals(team, pid, n)}
    IN  {a \o b : a \in one(TEAM_ABBREV, 1), b \in one("OTH", 2)}

\* day_stats: empty, or players 1..3 and a crowd of c players at 1.76.
CkDayStats ==
    {<<>>} \cup
    {[p \in 1..(3 + c) |->
        IF p = 1 THEN 100 ELSE IF p = 2 THEN v2 ELSE IF p = 3 THEN 170 ELSE 176] :
        v2 \in {50, 180}, c \in {0, TopFAs}}

\* Lines 87-91 and 99-102, with the faulty variant that leaves the end date
\* out: the interval covers check_date.
CoversOpenEnd(r, d) == r.start_date <= d /\ r.end_date > d
Covers(r, d) == r.start_date <= d /\ r.end_date >= d

\* Lines 87-91: the target team's rows that cover check_date.
CurrentRoster(rows, d) ==
    SelectSeq(rows, LAMBDA r : r.team_abbrev = TEAM_ABBREV /\ Covers(r, d))

\* Lines 99-102: the ids rostered by anyone on check_date.
AllRostered(rows, d) ==
    {rows[i].player_id : i \in {j \in 1..Len(rows) : Covers(rows[j], d)}}

\* Line 106: day_stats[~day_stats['player_id'].isin(all_rostered)].
FaStats(stats, rostered) == (DOMAIN stats) \ rostered

\* Line 109: sort_values('Rolling_Value', ascending=False); players of equal
\* value come out in the order the build's sort leaves them in.
RECURSIVE RankDescending(_, _, _)
RankDescending(ids, stats, kind) ==
    IF ids = {} THEN <<>>
    ELSE LET top == CHOOSE x \in ids : \A y \in ids \ {x} :
                        \/ stats[x] > stats[y]
                        \/ /\ stats[x] = stats[y]
                           /\ IF kind = "first" THEN x < y ELSE x > y
         IN  <<top>> \o RankDescending(ids \ {top}, stats, kind)

\* Lines 116-120: my_val, the sentinel when the player has no rolling value.
CkMyVal(pid, stats) ==
    IF pid \in DOMAIN stats THEN stats[pid] ELSE Sentinel * 100

\* Lines 123 and 128: the candidates beyond the margin, the first two.
CkBetter(top, stats, my_val) ==
    SelectSeq(top, LAMBDA p : stats[p] > my_val + MarginCents)

CkInit ==
    /\ apc = "load"
    /\ ck_max_date \in 3..MaxCkDate
    /\ check_date \in 2..ck_max_date
    /\ ck_roster \in CkRosters(MaxCkDate)
    /\ day_stats \in CkDayStats
    /\ ck_tie \in {"first", "last"}
    /\ ck_current = <<>>
    /\ all_rostered = {}
    /\ ck_top_fas = <<>>
    /\ ck_row = 0
    /\ ck_recs = <<>>

\* Lines 19-21: the open intervals end at the latest stats date.
CkLoad ==
    /\ apc = "load"
    /\ ck_roster' = FillEnd(ck_roster, ck_max_date)
    /\ apc' = "roster"
    /\ UNCHANGED <<ck_max_date, check_date, day_stats, ck_tie, ck_current,
                   all_rostered, ck_top_fas, ck_row, ck_recs>>
    /\ UNCHANGED notCkVars

\* Lines 87-93: the target team's roster on check_date; none, next Monday.
CkRoster ==
    /\ apc = "roster"
    /\ ck_current' = CurrentRoster(ck_roster, check_date)
    /\ apc' = IF ck_current' = <<>> THEN "done" ELSE "stats"
    /\ UNCHANGED <<ck_roster, ck_max_date, check_date, day_stats, ck_tie,
                   all_rostered, ck_top_fas, ck_row, ck_recs>>
    /\ UNCHANGED notCkVars

\* Lines 95-97: no rolling value on check_date, next Monday.
CkNoStats ==
    /\ apc = "stats"
    /\ day_stats = <<>>
    /\ apc' = "done"
    /\ UNCHANGED <<ck_roster, ck_max_date, check_date, day_stats, ck_tie,
                   ck_current, all_rostered, ck_top_fas, ck_row, ck_recs>>
    /\ UNCHANGED notCkVars

\* Lines 99-102.
CkRostered ==
    /\ apc = "stats"
    /\ day_stats # <<>>
    /\ all_rostered' = AllRostered(ck_roster, check_date)
    /\ apc' = "rank"
    /\ UNCHANGED <<ck_roster, ck_max_date, check_date, day_stats, ck_tie,
                   ck_current, ck_top_fas, ck_row, ck_recs>>
    /\ UNCHANGED notCkVars

\* Lines 106-109: fa_stats, sorted, its first 20 rows.
CkRank ==
    /\ apc = "rank"
    /\ ck_top_fas' = HeadN(RankDescending(FaStats(day_stats, all_rostered),
                                          day_stats, ck_tie), TopFAs)
    /\ ck_row' = 1
    /\ apc' = "compare"
    /\ UNCHANGED <<ck_roster, ck_max_date, check_date, day_stats, ck_tie,
                   ck_current, all_rostered, ck_recs>>
    /\ UNCHANGED notCkVars

\* Lines 112-137 for one row of current_roster.
CkCompare ==
    /\ apc = "compare"
    /\ ck_row <= Len(ck_current)
    /\ LET p_id == ck_current[ck_row].player_id
           better == CkBetter(ck_top_fas, day_stats, CkMyVal(p_id, day_stats))
       IN  ck_recs' = IF better # <<>>
                      THEN Append(ck_recs, [My_Player |-> p_id,
                                            Better_FA |-> HeadN(better, TopOptions)])
                      ELSE ck_recs
    /\ ck_row' = ck_row + 1
    /\ UNCHANGED <<apc, ck_roster, ck_max_date, check_date, day_stats, ck_tie,
                   ck_current, all_rostered, ck_top_fas>>
    /\ UNCHANGED notCkVars

\* The loop over current_roster is exhausted.
CkEnd ==
    /\ apc = "compare"
    /\ ck_row > Len(ck_current)
    /\ apc' = "done"
    /\ UNCHANGED <<ck_roster, ck_max_date, check_date, day_stats, ck_tie,
                   ck_current, all_rostered, ck_top_fas, ck_row, ck_recs>>
    /\ UNCHANGED notCkVars

CkNext ==
    \/ CkLoad \/ CkRoster \/ CkNoStats \/ CkRostered \/ CkRank \/ CkCompare
    \/ CkEnd

CkIdle ==
    /\ apc = "idle"
    /\ ck_roster = <<>>
    /\ ck_max_date = 0
    /\ check_date = 0
    /\ day_stats = <<>>
    /\ ck_tie = "none"
    /\ ck_current = <<>>
    /\ all_rostered = {}
    /\ ck_top_fas = <<>>
    /\ ck_row = 0
    /\ ck_recs = <<>>

(***************************************************************************)
(* build_matchup_map: update_daily_stats_matchup.py, lines 26-59.          *)
(***************************************************************************)
MaxPeriods == 9
MaxRegular == 3
MaxPlayoff == 2

total_matchups == reg_season_matchups + playoff_matchups

\* Lines 48-52, with the faulty variant that gives all the extra days to the
\* last matchup.
DaysExtrasLast(m, per, rest, total) ==
    per + (IF m = total THEN rest ELSE 0)
DaysOf(m, per, rest, total) ==
    per + (IF m <= rest THEN 1 ELSE 0)

MapInit ==
    /\ bpc = "start"
    /\ total_scoring_periods \in 1..MaxPeriods
    /\ reg_season_matchups \in 0..MaxRegular
    /\ playoff_matchups \in 0..MaxPlayoff
    /\ reg_season_matchups + playoff_matchups >= 1
    /\ days_per_matchup = 0
    /\ remainder = 0
    /\ mp_map = <<>>
    /\ sp = 0
    /\ matchup = 0
    /\ days_done = 0

\* Lines 40-45.
MapStart ==
    /\ bpc = "start"
    /\ days_per_matchup' = total_scoring_periods \div total_matchups
    /\ remainder' = total_scoring_periods % total_matchups
    /\ mp_map' = <<>>
    /\ sp' = 1
    /\ matchup' = 1
    /\ days_done' = 0
    /\ bpc' = "days"
    /\ UNCHANGED <<total_scoring_periods, reg_season_matchups, playoff_matchups>>
    /\ UNCHANGED notMapVars

\* Lines 54-57: one iteration of the inner loop.
MapDay ==
    /\ bpc = "days"
    /\ matchup <= total_matchups
    /\ days_done < DaysOf(matchup, days_per_matchup, remainder, total_matchups)
    /\ IF sp <= total_scoring_periods
       THEN /\ mp_map' = (sp :> matchup) @@ mp_map
            /\ sp' = sp + 1
       ELSE UNCHANGED <<mp_map, sp>>
    /\ days_done' = days_done + 1
    /\ UNCHANGED <<bpc, total_scoring_periods, reg_season_matchups,
                   playoff_matchups, days_per_matchup, remainder, matchup>>
    /\ UNCHANGED notMapVars

\* Line 47: the inner loop is exhausted, on to the next matchup.
MapNextMatchup ==
    /\ bpc = "days"
    /\ matchup <= total_matchups
    /\ days_done >= DaysOf(matchup, days_per_matchup, remainder, total_matchups)
    /\ matchup' = matchup + 1
    /\ days_done' = 0
    /\ UNCHANGED <<bpc, total_scoring_periods, reg_season_matchups,
                   playoff_matchups, days_per_matchup, remainder, mp_map, sp>>
    /\ UNCHANGED notMapVars

\* Line 59: return mp_map.
MapReturn ==
    /\ bpc = "days"
    /\ matchup > total_matchups
    /\ bpc' = "done"
    /\ UNCHANGED <<total_scoring_periods, reg_season_matchups, playoff_matchups,
                   days_per_matchup, remainder, mp_map, sp, matchup, days_done>>
    /\ UNCHANGED notMapVars

MapNext == MapStart \/ MapDay \/ MapNextMatchup \/ MapReturn

MapIdle ==
    /\ bpc = "idle"
    /\ total_scoring_periods = 0
    /\ reg_season_matchups = 0
    /\ playoff_matchups = 0
    /\ days_per_matchup = 0
    /\ remainder = 0
    /\ mp_map = <<>>
    /\ sp = 0
    /\ matchup = 0
    /\ days_done = 0

(***************************************************************************)
(* Window Optimizer properties (checked under SpecOpt).                    *)
(***************************************************************************)
WindowSet == {windows[i] : i \in 1..Len(windows)}

\* The defined correlations of the table and the greatest of them.
DefinedCorrs == {correlations[w] : w \in DOMAIN correlations} \ {NaN}
GreatestCorr == CHOOSE v \in DefinedCorrs : \A u \in DefinedCorrs : NumGeq(v, u)

\* Window w retains at least 90% of the best observed correlation.
MeetsNinety(w) ==
    /\ DefinedCorrs # {}
    /\ NumGeq(correlations[w], NumScale(GreatestCorr, 9, 10))

\* Every candidate's correlation is defined.
AllDefined == \A w \in DOMAIN correlations : correlations[w] # NaN

\* C1 as stated: for any table of (defined) correlations the selected window
\* meets the threshold 0.90 * max(correlations) and no smaller candidate
\* meets it.
C1_SmallestMeetingAlwaysSelected ==
    opc = "done" /\ AllDefined =>
        /\ MeetsNinety(best_window)
        /\ \A w \in WindowSet : w < best_window => ~MeetsNinety(w)

\* C1 amended: when some candidate meets the threshold the selected window
\* is the smallest candidate that meets it; when none does (the maximum is
\* negative or undefined) the selected window is the largest candidate.
C1_SmallestMeetingOrFallback ==
    opc = "done" =>
        IF \E w \in WindowSet : MeetsNinety(w)
        THEN /\ MeetsNinety(best_window)
             /\ \A w \in WindowSet : w < best_window => ~MeetsNinety(w)
        ELSE /\ best_window = FallbackWindow
             /\ \A w \in WindowSet : w <= best_window

\* C1 witness: the first candidate has 0.75, the maximum is 0.80 at a larger
\* window, and the first candidate is the one selected.
C1_Witness ==
    /\ opc = "done"
    /\ max_corr = MkTerm(80, 100, 1)
    /\ correlations[windows[1]] = MkTerm(75, 100, 1)
    /\ best_window = windows[1]

\* The selection loop ran to its end without a break.
FallbackTaken == opc = "select" /\ w_idx > Len(windows)

\* C2 as stated: for every table, all-negative ones included, the window
\* attaining the maximum meets 0.90 * max_corr and the fallback is never
\* taken.
C2_ArgmaxAlwaysMeets ==
    opc \in {"select", "done"} /\ AllDefined =>
        /\ \E w \in WindowSet :
              /\ correlations[w] = max_corr
              /\ NumGeq(correlations[w], NumScale(max_corr, 9, 10))
        /\ ~FallbackTaken

\* C2 amended: when max_corr is defined and not negative the window
\* attaining it meets 0.90 * max_corr and the fallback is never taken; when
\* max_corr is negative or undefined no candidate meets the threshold and
\* the run ends on the fallback window.
C2_ArgmaxMeetsUnlessNegative ==
    opc \in {"select", "done"} =>
        IF NumGeq(max_corr, Zero)
        THEN /\ \E w \in WindowSet :
                   /\ correlations[w] = max_corr
                   /\ NumGeq(correlations[w], NumScale(max_corr, 9, 10))
             /\ ~FallbackTaken
        ELSE /\ \A w \in WindowSet :
                   ~NumGeq(correlations[w], NumScale(max_corr, 9, 10))
             /\ opc = "done" => best_window = FallbackWindow /\ best_corr = Zero

\* C2 witness: a positive maximum at the largest window, which alone meets
\* the threshold and is selected by the loop (best_corr is its correlation).
C2_Witness ==
    /\ opc = "done"
    /\ IsPos(max_corr)
    /\ best_window = windows[Len(windows)]
    /\ best_corr = max_corr
    /\ \A w \in WindowSet \ {best_window} : ~MeetsNinety(w)

\* C3 as stated: a window whose correlation is undefined is not stored, takes
\* no part in max_corr and is never the selected window.
C3_UndefinedExcluded ==
    opc = "done" =>
        /\ \A w \in DOMAIN correlations : correlations[w] # NaN
        /\ max_corr # NaN
        /\ correlations[best_window] # NaN


(***************************************************************************)
(* Category Normalizer properties (checked under SpecZ).                   *)
(***************************************************************************)
\* The StandardScore column of a category whose pass of the loop has run.
Scored(cat) == ZColName(cat) \in DOMAIN z_score_df
ZOf(cat) == z_score_df[ZColName(cat)]
Rows == 1..Len(df)

C5_SinglePlayerZero ==
    Len(df) = 1 => \A cat \in CatNames : Scored(cat) => ZOf(cat)[1] = Zero

\* C6: in a cohort with spread, a lower raw value gets a strictly greater
\* StandardScore in an ascending category and a strictly smaller one in any
\* other category.
C6_AscendingInverts ==
    \A cat \in CatNames :
        Scored(cat) =>
            \A a, b \in Rows :
                NumLess(df[a][cat], df[b][cat]) =>
                    IF cat \in ascending_categories
                    THEN NumLess(ZOf(cat)[b], ZOf(cat)[a])
                    ELSE NumLess(ZOf(cat)[a], ZOf(cat)[b])

\* C6 witness: ERA ascending, QS not, both scored, and a player who is lower
\* than another in both.
C6_Witness ==
    /\ zpc = "done"
    /\ "ERA" \in ascending_categories
    /\ Scored("ERA") /\ Scored("QS")
    /\ \E a, b \in Rows :
          NumLess(df[a]["ERA"], df[b]["ERA"]) /\ NumLess(df[a]["QS"], df[b]["QS"])

\* Positions of categories that hold the first occurrence of their name.
FirstOccurrences ==
    SortedSeq({k \in 1..Len(categories) :
                  \A j \in 1..(k - 1) : categories[j] # categories[k]})

\* No StandardScore is NaN.
AllScoresDefined ==
    \A c \in DOMAIN z_score_df : \A i \in Rows : z_score_df[c][i] # NaN

\* C7 as stated: Total_Z is the sum of the player's StandardScores, each
\* requested category counted exactly once, a repeated name included.
C7_TotalCountsEachCategoryOnce ==
    zpc = "done" /\ AllScoresDefined =>
        \A i \in Rows :
            Total_Z[i] =
                NumSumSeq([k \in 1..Len(FirstOccurrences) |->
                              ZOf(categories[FirstOccurrences[k]])[i]])

\* Some two players differ in the category.
HasSpread(cat) == \E a, b \in Rows : df[a][cat] # df[b][cat]

SumOfScores(cat) == NumSumSeq(ZOf(cat))
SumOfSquares(cat) == NumSumSeq([i \in Rows |-> NumSq(ZOf(cat)[i])])

TermIfPresent(table, name, i) ==
    IF name \in DOMAIN table THEN ZTerm(table[name], i) ELSE Zero

SumOverList(table, names, i) ==
    NumSumSeq([k \in 1..Len(names) |-> TermIfPresent(table, names[k], i)])

WhipTermIfEntered(v, table, i) ==
    IF WhipGuard(v, DOMAIN table) /\ ~WhipKeyError(DOMAIN table)
    THEN ZTerm(WhipVal(table), i) ELSE Zero

\* The value of row i counting the categories of the row's own role only.
OwnRoleValue(i) ==
    IF day.roles[i] = "batter"
    THEN SumOverList(day.cols, batter_stats, i)
    ELSE NumSub(NumSub(SumOverList(day.cols, pitcher_positive, i),
                       WhipTermIfEntered(variant, day.cols, i)),
                TermIfPresent(day.cols, "ER", i))

\* C9 as stated: a batter's value is the sum over batting categories only
\* and a pitcher's over pitching categories only; the other role's columns
\* never change it.
C9_RolesNeverMixed ==
    dpc = "done" /\ ~raised => \A i \in 1..NRows : Daily_Value[i] = OwnRoleValue(i)

\* The table with every missing column present and all-zero.
ZeroFilled(table, n) ==
    [c \in AllCols |-> IF c \in DOMAIN table THEN table[c] ELSE [i \in 1..n |-> Zero]]

\* What copy v returns for row i of a table that has every column.
ValueOnFullTable(v, table, i) ==
    NumSub(NumSub(SumOverList(table, LoopCols, i), WhipTermIfEntered(v, table, i)),
           TermIfPresent(table, "ER", i))

\* C10 as stated: whatever columns are missing, the computation does not
\* raise and returns what it returns on the table with the missing columns
\* present and all-zero.
C10_MissingColumnsAreZeros ==
    dpc = "done" =>
        /\ ~raised
        /\ \A i \in 1..NRows :
              Daily_Value[i] = ValueOnFullTable(variant, ZeroFilled(day.cols, NRows), i)

(***************************************************************************)
(* Rolling Window Engine properties (checked under SpecRoll).              *)
(***************************************************************************)
RollDone == rpc \in {"stack", "future", "align", "done"}
RollPlayers == DOMAIN pivot_val.cols
RollRows == 1..Len(pivot_val.dates)

\* The row position of an observed date.
RowOf(d) == CHOOSE t \in RollRows : pivot_val.dates[t] = d

\* The player's value is the same on every date of the matrix.
ConstantSeries(p) == \A t \in RollRows : pivot_val.cols[p][t] = pivot_val.cols[p][1]

\* C11: when a player's daily value equals v on every date of the matrix,
\* the rolling value equals v at every row position from the W-th on.
C11_ConstantSeriesRollsToItself ==
    RollDone =>
        \A p \in RollPlayers :
            ConstantSeries(p) =>
                \A t \in RollRows : t >= window => past_w[p][t] = pivot_val.cols[p][1]

\* C11 witness: the steady player holds the largest value on every date of a
\* matrix longer than the window, next to a player whose series varies.
C11_Witness ==
    /\ rpc = "done"
    /\ RollPlayers = {"a", "b"}
    /\ Len(pivot_val.dates) > window
    /\ ConstantSeries("a") /\ ~ConstantSeries("b")
    /\ pivot_val.cols["a"][1] = IntNum(MaxDV)

\* C12: the rolling value is undefined (NaN, not 0) at each of the first
\* W-1 rows; no such row, and no NaN, is among the recommender's stacked
\* rolling values or among the optimizer's paired observations.
C12_InsufficientHistoryExcluded ==
    /\ RollDone =>
          \A p \in RollPlayers : \A t \in RollRows : t < window => past_w[p][t] = NaN
    /\ \A r \in rolling_long : r.val # NaN /\ RowOf(r.date) >= window
    /\ \A r \in aligned : r.Past # NaN /\ r.Future # NaN /\ RowOf(r.date) >= window

\* C12 witness: a matrix long enough for both tables to have rows, with more
\* than one undefined leading row.
C12_Witness ==
    /\ rpc = "done"
    /\ window > WindowStart
    /\ rolling_long # {}
    /\ aligned # {}
    /\ Cardinality(RollPlayers) = 2

\* The value the calendar-day reading gives player p on calendar day c: the
\* recorded value, 0 when the player or the whole day has no record.
CalendarValue(p, c) == FillNa0(PivotCell(player_daily, c, p))

RECURSIVE CalendarSum(_, _, _)
CalendarSum(p, from, to) ==
    IF from > to THEN Zero
    ELSE NumAdd(CalendarValue(p, from), CalendarSum(p, from + 1, to))

\* C13 as stated: the window spans exactly W calendar days; a day between
\* the first and last observed dates that has no record for any player
\* counts as 0, so the rolling value at date d is the mean over calendar
\* days d-W+1 .. d whenever those days lie within the observed range.
C13_WindowSpansCalendarDays ==
    RollDone =>
        \A p \in RollPlayers : \A t \in RollRows :
            LET d == pivot_val.dates[t]
            IN  d - window + 1 >= pivot_val.dates[1] =>
                    past_w[p][t] =
                        NumDiv(CalendarSum(p, d - window + 1, d), IntNum(window))

\* The mean of the FutureHorizon rows that follow row t of player p.
MeanAfter(p, t) ==
    NumDiv(NumSumSeq(SubSeq(pivot_val.cols[p], t + 1, t + FutureHorizon)),
           IntNum(FutureHorizon))

\* C25: at row t (counted from 1) the future value is the mean of the daily
\* values of rows t+1 .. t+7, row t itself not among them; it is undefined
\* at each of the last 7 rows; and an observation is paired for window W
\* only at a row t with W <= t <= n - 7, which counted from 0 reads
\* W-1 <= t <= n-8.
C25_FutureStrictlyForward ==
    /\ rpc \in {"align", "done"} =>
          \A p \in RollPlayers : \A t \in RollRows :
              future_7[p][t] =
                  IF t + FutureHorizon <= Len(pivot_val.dates)
                  THEN MeanAfter(p, t) ELSE NaN
    /\ \A r \in aligned :
          /\ RowOf(r.date) >= window
          /\ RowOf(r.date) <= Len(pivot_val.dates) - FutureHorizon

\* C25 witness: pairs exist, at more than one row, and for some player the
\* value of a paired row differs from the value 7 rows later, so that the
\* mean of rows t .. t+6 is not the mean of rows t+1 .. t+7.
C25_Witness ==
    /\ rpc = "done"
    /\ \E r, q \in aligned : r.date # q.date
    /\ \E r \in aligned :
          pivot_val.cols[r.player][RowOf(r.date)]
              # pivot_val.cols[r.player][RowOf(r.date) + FutureHorizon]

(***************************************************************************)
(* Roster/Free-Agent Comparator properties (checked under SpecRec).        *)
(***************************************************************************)
\* Roster row i has been through the loop body.
Compared(i) == cpc \in {"compare", "done"} /\ i < row_idx

\* The recommendation rows appended for roster row i.
RowsFor(i) ==
    {k \in 1..Len(recommendations) : recommendations[k].My_Player = i}
Flagged(i) == RowsFor(i) # {}

\* Rolling values held by at least one unrostered player.
FreeAgentValues == {v \in DOMAIN fa_stats : fa_stats[v] > 0}

\* v exceeds r by more than 0.75.
BeyondMargin(v, r) == IsPos(NumSub(NumSub(v, r), MkTerm(3, 4, 1)))

\* C14: a roster player with rolling value r is flagged if and only if
\* some free agent has a rolling value strictly greater than r + 0.75.
C14_FlaggedIffBeyondMargin ==
    \A i \in 1..Len(current_roster) :
        Compared(i) /\ current_roster[i] # {} =>
            LET r == CHOOSE v \in current_roster[i] : TRUE
            IN  Flagged(i) <=> \E v \in FreeAgentValues : BeyondMargin(v, r)

\* C14 witness: with free agents at 1.80, 1.75 and 1.70, a roster player at
\* 1.00 is flagged and the row lists 1.80 only (1.75 stands exactly at the
\* margin).
C14_Witness ==
    /\ cpc = "done"
    /\ Len(current_roster) >= 1
    /\ current_roster[1] = {IntNum(1)}
    /\ fa_stats[MkTerm(180, 100, 1)] = 1
    /\ fa_stats[MkTerm(175, 100, 1)] = 1
    /\ fa_stats[MkTerm(170, 100, 1)] = 1
    /\ Flagged(1)
    /\ recommendations[1].My_Player = 1
    /\ recommendations[1].Better_FA = <<MkTerm(180, 100, 1)>>

\* The free agents' values that beat r by the margin, highest first, with
\* one entry per player.
BeatingDescending(r) ==
    SelectSeq(SortDescending(fa_stats), LAMBDA v : BeyondMargin(v, r))

\* C15: every recommendation row lists at most 2 alternatives, in descending
\* order of rolling value; each exceeds the roster player's value by more
\* than 0.75; they are the highest-valued free agents that do.
C15_TopTwoAlternatives ==
    \A k \in 1..Len(recommendations) :
        LET opts == recommendations[k].Better_FA
            r    == recommendations[k].My_Value
            beat == BeatingDescending(r)
        IN  /\ Len(opts) <= 2
            /\ Len(opts) >= 1
            /\ \A j \in 1..Len(opts) : BeyondMargin(opts[j], r)
            /\ \A j \in 1..(Len(opts) - 1) : NumGeq(opts[j], opts[j + 1])
            /\ Len(opts) = (IF Len(beat) < 2 THEN Len(beat) ELSE 2)
            /\ \A j \in 1..Len(opts) : opts[j] = beat[j]

\* C15 witness: more than 20 free agents, three or more of them beating a
\* roster player who stands at 0.50, and the row lists two different values.
C15_Witness ==
    /\ cpc = "done"
    /\ Len(recommendations) >= 1
    /\ Len(SortDescending(fa_stats)) > TopFAs
    /\ Len(BeatingDescending(recommendations[1].My_Value)) >= 3
    /\ recommendations[1].My_Value = MkTerm(50, 100, 1)
    /\ Len(recommendations[1].Better_FA) = 2
    /\ recommendations[1].Better_FA[1] # recommendations[1].Better_FA[2]

\* C16: when the target team has roster rows and some free agent exists,
\* the checkpoint is not skipped, and a roster player with no rolling value
\* is compared as -999 and flagged.
C16_MissingValueFlagged ==
    /\ cpc = "done" /\ current_roster # <<>> /\ FreeAgentValues # {}
          => row_idx > Len(current_roster)
    /\ \A i \in 1..Len(current_roster) :
          Compared(i) /\ current_roster[i] = {} /\ FreeAgentValues # {} =>
              /\ Flagged(i)
              /\ \A k \in RowsFor(i) : recommendations[k].My_Value = IntNum(-999)

\* C16 witness: a roster player without a rolling value is flagged although
\* the best free agent stands at 0.50 only.
C16_Witness ==
    /\ cpc = "done"
    /\ \E i \in 1..Len(current_roster) :
          /\ current_roster[i] = {}
          /\ Flagged(i)
    /\ FreeAgentValues = {MkTerm(50, 100, 1)}

(***************************************************************************)
(* Derived rate stats properties (checked under SpecRate).                 *)
(***************************************************************************)
\* C19: after the guard, a rate whose denominator (plate appearances,
\* at-bats, outs pitched) is 0 is 0, and no rate stat is NaN or infinite.
C19_ZeroDenominatorGuarded ==
    qpc = "done" =>
        /\ player_stats["PA"] = Zero => player_stats["OBP"] = Zero
        /\ player_stats["AB"] = Zero => player_stats["SLG"] = Zero
        /\ player_stats["OUTS"] = Zero =>
              \A c \in {"ERA", "WHIP", "K/9"} : player_stats[c] = Zero
        /\ \A c \in {"OBP", "SLG", "OPS", "ERA", "WHIP", "K/9"} :
              player_stats[c] \notin {NaN, PosInf, NegInf}

\* C19 witness: hits without a plate appearance (an infinite OBP before the
\* guard), no at-bats and no total bases (0/0), earned runs without an out.
C19_Witness ==
    /\ qpc = "done"
    /\ player_stats["PA"] = Zero /\ player_stats["H"] # Zero
    /\ player_stats["AB"] = Zero /\ player_stats["TB"] = Zero
    /\ player_stats["OUTS"] = Zero /\ player_stats["ER"] # Zero

(***************************************************************************)
(* Season Ranker properties (checked under SpecRank).                      *)
(***************************************************************************)
\* A run has written its table.
TableWritten == kpc \in {"rerun", "done"} /\ ~keep_raised

\* The usage thresholds, restated: 200 plate appearances for a batter, 50
\* innings (150 outs) for a pitcher.
IsQualified(r) ==
    \/ r.b_or_p = "batter" /\ r.PA >= 200
    \/ r.b_or_p = "pitcher" /\ r.OUTS >= 150

TeamIds == {season[i].teamId : i \in 1..Len(season)}
QualifiedOf(team) ==
    {season[i].playerId : i \in {j \in 1..Len(season) :
                                    season[j].teamId = team /\ IsQualified(season[j])}}
OutputRowsOf(team) == {k \in 1..Len(results_df) : results_df[k].Team_ID = team}
SelectedOf(team) == {results_df[k].Player : k \in OutputRowsOf(team)}

\* The position of a player in all_ranked and the player's Total_Z.
RankedPos(id) == CHOOSE i \in 1..Len(all_ranked) : all_ranked[i].playerId = id
TotalOf(id) == all_ranked[RankedPos(id)].Total_Z

\* The position of a player's row in the output table.
OutputPos(id) == CHOOSE k \in 1..Len(results_df) : results_df[k].Player = id

\* C17: a team with q >= 1 qualified players has exactly min(5, q) output
\* rows, all for qualified players of the team, and no unselected qualified
\* player of the team has a greater Total_Z than a selected one.
C17_TopFivePerTeam ==
    TableWritten =>
        \A team \in TeamIds :
            LET q == QualifiedOf(team)
            IN  q # {} =>
                /\ Cardinality(OutputRowsOf(team)) =
                       (IF Cardinality(q) < 5 THEN Cardinality(q) ELSE 5)
                /\ Cardinality(SelectedOf(team)) = Cardinality(OutputRowsOf(team))
                /\ SelectedOf(team) \subseteq q
                /\ \A a \in SelectedOf(team) : \A b \in q \ SelectedOf(team) :
                       NumGeq(TotalOf(a), TotalOf(b))

\* C17 witness: a team of six qualified players, one of them left out with
\* a Total_Z below that of a selected one, and a non-qualified player.
C17_Witness ==
    /\ kpc = "done"
    /\ ~keep_raised
    /\ \E team \in TeamIds :
          /\ Cardinality(QualifiedOf(team)) = 6
          /\ Cardinality(SelectedOf(team)) = 5
          /\ \E a \in SelectedOf(team) : \E b \in QualifiedOf(team) \ SelectedOf(team) :
                NumLess(TotalOf(b), TotalOf(a))

\* C18 as stated: the sort is stable; two players of one team with equal
\* Total_Z are ranked in their original relative order, and when only one
\* of them is selected it is the earlier one.
C18_TiesKeepOriginalOrder ==
    TableWritten =>
        \A team \in TeamIds : \A a, b \in QualifiedOf(team) :
            (/\ RankedPos(a) < RankedPos(b)
             /\ TotalOf(a) = TotalOf(b)
             /\ b \in SelectedOf(team))
            => /\ a \in SelectedOf(team)
               /\ OutputPos(a) < OutputPos(b)

TeamLoopDone == tpc \in {"merge", "done"}

TeamRowsOf(t) == {i \in 1..Len(roster_df) : roster_df[i].team_abbrev = t}

RECURSIVE SumValues(_)
SumValues(S) ==
    IF S = {} THEN 0
    ELSE LET x == CHOOSE y \in S : TRUE
         IN  x.Daily_Value + SumValues(S \ {x})

\* The sum of the player's Daily_Value records dated from..to, both included.
SeriesSum(pid, from, to) ==
    SumValues({x \in daily_table :
                  x.espn_player_id = pid /\ from <= x.date /\ x.date <= to})

\* Team t holds one interval and it covers the whole of date_range.
HoldsThroughout(t) ==
    /\ Cardinality(TeamRowsOf(t)) = 1
    /\ \A i \in TeamRowsOf(t) :
          /\ roster_df[i].start_date <= season_start
          /\ roster_df[i].end_date >= max_date

\* C21: once the loop over date_range has ended, a team that holds a single
\* player over one interval covering the whole range has a Total_Value equal
\* to the sum of that player's Daily_Value over every day of the range, the
\* start_date day and the end_date day each counted once.
C21_BoundaryInclusive ==
    TeamLoopDone =>
        \A t \in DOMAIN team_values :
            HoldsThroughout(t) =>
                \A i \in TeamRowsOf(t) :
                    team_values[t] =
                        SeriesSum(roster_df[i].player_id, season_start, max_date)

\* C21 witness: the report is written for a team that held one player from
\* the first day of the range to the last, the player has a non-zero record
\* on both of those days, and the team's total is not zero.
C21_Witness ==
    /\ tpc = "done"
    /\ max_date > season_start + GraceDays
    /\ \E t \in DOMAIN team_values :
          /\ HoldsThroughout(t)
          /\ team_values[t] # 0
          /\ \A i \in TeamRowsOf(t) :
                \A d \in {season_start, max_date} :
                    \E x \in daily_table :
                        /\ x.espn_player_id = roster_df[i].player_id
                        /\ x.date = d
                        /\ x.Daily_Value # 0

\* The rows of the merged per-team table that belong to team t.
MetricRowsOf(t) ==
    {i \in 1..Len(merged_metrics) : merged_metrics[i].team_abbrev = t}

\* C22: the per-team metrics table holds exactly one row for every team of
\* the roster-interval input, also for a team none of whose intervals ended
\* before the drop buffer and for a team that added nobody after the grace
\* period.
C22_OneRowPerTeam ==
    tpc = "done" =>
        \A i \in 1..Len(roster_df) :
            Cardinality(MetricRowsOf(roster_df[i].team_abbrev)) = 1

(***************************************************************************)
(* Dashboard snapshot properties (checked under SpecDash).                 *)
(***************************************************************************)
\* C23: the CSV never holds two rows for the same player and date, that is,
\* no run appends a snapshot for a date the file already had rows for when
\* the run started; this over every sequence of live and dry runs, on the
\* same day or on different days.
C23_NoDuplicateDates ==
    \A i, j \in 1..Len(csv_rows) : i # j => csv_rows[i] # csv_rows[j]

\* C23 witness: the file holds the snapshots of two days, today's among
\* them, and a dry run that has read the file is about to decide whether to
\* append today's snapshot again.
C23_Witness ==
    /\ mpc = "dry"
    /\ now \in existing_dates
    /\ Cardinality(existing_dates) >= 2
    /\ \E i \in 1..Len(csv_rows) : csv_rows[i].date = now

\* C24: when a live run ends, every date of the last 7 days that had no
\* snapshot when the run looked for missing dates has rows in the CSV.
C24_MissedDateBackfilled ==
    [][DashAlways =>
          \A i \in 1..Len(missing) :
              \E j \in 1..Len(csv_rows') : csv_rows'[j].date = missing[i]]_vars

(***************************************************************************)
(* Free-agent pool properties (checked under SpecCk).                      *)
(***************************************************************************)
\* Player p is covered on check_date by a roster interval of some team, an
\* open end_date counting as the latest stats date.
OnSomeRoster(p) ==
    \E i \in 1..Len(ck_roster) :
        LET r == ck_roster[i]
            e == IF r.end_date = NaT THEN ck_max_date ELSE r.end_date
        IN  r.player_id = p /\ r.start_date <= check_date /\ check_date <= e

CkCandidates == {ck_top_fas[i] : i \in 1..Len(ck_top_fas)}

CkAlternatives ==
    UNION {{ck_recs[i].Better_FA[j] : j \in 1..Len(ck_recs[i].Better_FA)} :
              i \in 1..Len(ck_recs)}

\* C26: no player covered on check_date by a roster interval of any team is
\* among the free-agent candidates or the recommended alternatives; the
\* candidates are at most 20; and no unrostered player left out has a
\* higher rolling value than a candidate.
C26_CandidatesUnrostered ==
    apc \in {"compare", "done"} =>
        /\ \A p \in CkCandidates \cup CkAlternatives : ~OnSomeRoster(p)
        /\ Len(ck_top_fas) <= TopFAs
        /\ \A p \in DOMAIN day_stats :
              (~OnSomeRoster(p) /\ p \notin CkCandidates /\ ck_top_fas # <<>>) =>
                  \A q \in CkCandidates : day_stats[p] <= day_stats[q]

\* C26 witness: the checkpoint is the last day of another team's interval,
\* that team's player out-values every free agent, more unrostered players
\* have a rolling value than the 20 kept, and a recommendation was written.
C26_Witness ==
    /\ apc = "done"
    /\ \E i \in 1..Len(ck_roster) :
          /\ ck_roster[i].team_abbrev # TEAM_ABBREV
          /\ ck_roster[i].end_date = check_date
          /\ ck_roster[i].player_id \in DOMAIN day_stats
          /\ \A q \in CkCandidates :
                day_stats[ck_roster[i].player_id] > day_stats[q]
    /\ Len(ck_top_fas) = TopFAs
    /\ \E p \in DOMAIN day_stats : ~OnSomeRoster(p) /\ p \notin CkCandidates
    /\ ck_recs # <<>>

(***************************************************************************)
(* Window Optimizer, the reported pair (checked under SpecOpt).            *)
(***************************************************************************)
\* C27: in every outcome, the fallback included, the correlation reported
\* with the selected window is the one the correlations mapping records for
\* that window.  Stated for selected windows whose correlation is defined,
\* so that a violation does not rest on the undefined case.
C27_ReportedPairConsistent ==
    (opc = "done" /\ correlations[best_window] # NaN) =>
        best_corr = correlations[best_window]

(***************************************************************************)
(* Daily Value Aggregator, the three copies compared (under SpecDV).       *)
(***************************************************************************)
\* No copy raises on the date's table.
NoCopyRaises ==
    \A v \in Variants :
        ~(WhipGuard(v, DOMAIN day.cols) /\ WhipKeyError(DOMAIN day.cols))

\* C28: whatever the rows and the set of present columns, the copy that ran
\* has given every player the Daily_Value each of the three copies gives on
\* that table; the walks-plus-hits term is subtracted by all or by none.
\* Stated for tables on which no copy raises.
C28_CopiesEquivalent ==
    (dpc = "done" /\ NoCopyRaises) =>
        \A v \in Variants : \A i \in 1..NRows :
            Daily_Value[i] = ValueOnFullTable(v, day.cols, i)

(***************************************************************************)
(* Derived rate stats, OPS after the guard (checked under SpecRate).       *)
(***************************************************************************)
\* C29: after the guard a player's OPS is the guarded OBP plus the guarded
\* SLG; with plate appearances but no at-bats it is the OBP (SLG counted as
\* 0), not 0.
C29_OpsIsGuardedSum ==
    qpc = "done" =>
        player_stats["OPS"] = NumAdd(player_stats["OBP"], player_stats["SLG"])

(***************************************************************************)
(* build_matchup_map properties (checked under SpecMap).                   *)
(***************************************************************************)
\* The scoring periods the returned map gives to matchup m.
PeriodsOf(m) == {p \in DOMAIN mp_map : mp_map[p] = m}

InitOpt == OptInit /\ ZIdle /\ DVIdle /\ RollIdle /\ RecIdle /\ RateIdle /\
    RankIdle /\ TeamIdle /\ DashIdle /\ CkIdle /\ MapIdle
SpecOpt == InitOpt /\ [][OptNext]_vars

InitZ == ZInit /\ OptIdle /\ DVIdle /\ RollIdle /\ RecIdle /\ RateIdle /\
    RankIdle /\ TeamIdle /\ DashIdle /\ CkIdle /\ MapIdle
SpecZ == InitZ /\ [][ZNext]_vars

InitDV == DVInit /\ OptIdle /\ ZIdle /\ RollIdle /\ RecIdle /\ RateIdle /\
    RankIdle /\ TeamIdle /\ DashIdle /\ CkIdle /\ MapIdle
SpecDV == InitDV /\ [][DVNext]_vars

InitRoll == RollInit /\ OptIdle /\ ZIdle /\ DVIdle /\ RecIdle /\
    RateIdle /\ RankIdle /\ TeamIdle /\ DashIdle /\ CkIdle /\ MapIdle
SpecRoll == InitRoll /\ [][RollNext]_vars

InitRec == RecInit /\ OptIdle /\ ZIdle /\ DVIdle /\ RollIdle /\ RateIdle /\
    RankIdle /\ TeamIdle /\ DashIdle /\ CkIdle /\ MapIdle
SpecRec == InitRec /\ [][RecNext]_vars

InitRate == RateInit /\ OptIdle /\ ZIdle /\ DVIdle /\ RollIdle /\
    RecIdle /\ RankIdle /\ TeamIdle /\ DashIdle /\ CkIdle /\ MapIdle
SpecRate == InitRate /\ [][RateNext]_vars

InitRank == RankInit /\ OptIdle /\ ZIdle /\ DVIdle /\ RollIdle /\
    RecIdle /\ RateIdle /\ TeamIdle /\ DashIdle /\ CkIdle /\ MapIdle
SpecRank == InitRank /\ [][RankNext]_vars

InitTeam == TeamInit /\ OptIdle /\ ZIdle /\ DVIdle /\ RollIdle /\
    RecIdle /\ RateIdle /\ RankIdle /\ DashIdle /\ CkIdle /\ MapIdle
SpecTeam == InitTeam /\ [][TeamNext]_vars

InitDash == DashInit /\ OptIdle /\ ZIdle /\ DVIdle /\ RollIdle /\
    RecIdle /\ RateIdle /\ RankIdle /\ TeamIdle /\ CkIdle /\ MapIdle
SpecDash == InitDash /\ [][DashNext]_vars

InitCk == CkInit /\ OptIdle /\ ZIdle /\ DVIdle /\ RollIdle /\ RecIdle /\
    RateIdle /\ RankIdle /\ TeamIdle /\ DashIdle /\ MapIdle
SpecCk == InitCk /\ [][CkNext]_vars

InitMap == MapInit /\ OptIdle /\ ZIdle /\ DVIdle /\ RollIdle /\ RecIdle /\
    RateIdle /\ RankIdle /\ TeamIdle /\ DashIdle /\ CkIdle
SpecMap == InitMap /\ [][MapNext]_vars

=============================================================================
